---- MODULE Spec2Model ----
(***************************************************************************)
(* Model of the llm-router-plugins masking engine: the validator library,  *)
(* the detector rules (pattern + optional validator + placeholder), the    *)
(* FastMasker rule pipeline and the recursive payload traversal.           *)
(*                                                                         *)
(* Text is a sequence of characters; a character is a one-character string *)
(* ("4", "@") and a non-ASCII character is named by its code point         *)
(* ("U+0142").  A pattern is the syntax tree of the rule's regular         *)
(* expression, matched with the backtracking semantics of Python's re.     *)
(***************************************************************************)
EXTENDS Integers, Sequences, FiniteSets, TLC

(***************************************************************************)
(* Characters and character classes                                        *)
(***************************************************************************)
DigitSeq == <<"0", "1", "2", "3", "4", "5", "6", "7", "8", "9">>
LowerSeq == <<"a", "b", "c", "d", "e", "f", "g", "h", "i", "j", "k", "l", "m",
              "n", "o", "p", "q", "r", "s", "t", "u", "v", "w", "x", "y", "z",
              "U+00F3", "U+0105", "U+0107", "U+0119", "U+0142", "U+0144",
              "U+015B", "U+017A", "U+017C">>
UpperSeq == <<"A", "B", "C", "D", "E", "F", "G", "H", "I", "J", "K", "L", "M",
              "N", "O", "P", "Q", "R", "S", "T", "U", "V", "W", "X", "Y", "Z",
              "U+00D3", "U+0104", "U+0106", "U+0118", "U+0141", "U+0143",
              "U+015A", "U+0179", "U+017B">>

Range(s) == {s[j] : j \in 1..Len(s)}

Digit == Range(DigitSeq)
Lower == {LowerSeq[j] : j \in 1..26}
Upper == {UpperSeq[j] : j \in 1..26}
Letter == Lower \cup Upper
PolishLetter == {LowerSeq[j] : j \in 27..35} \cup {UpperSeq[j] : j \in 27..35}
HexDigit == Digit \cup {"A", "B", "C", "D", "E", "F", "a", "b", "c", "d", "e", "f"}
Space == {" ", "\t", "\n", "U+00A0"}
Word == Letter \cup Digit \cup {"_"} \cup PolishLetter
Punct == {"!", "#", "$", "%", "&", "'", "(", ")", "*", "+", ",", "-", ".", "/",
          ":", ";", "<", "=", ">", "?", "@", "[", "]", "^", "_", "{", "|",
          "}", "~", "U+00A3", "U+00A5", "U+20AC", "U+20B9", "U+20BD"}
Chars == Word \cup Space \cup Punct

ToUpper(c) ==
  IF \E j \in 1..Len(LowerSeq) : LowerSeq[j] = c
  THEN UpperSeq[CHOOSE j \in 1..Len(LowerSeq) : LowerSeq[j] = c]
  ELSE c

ToLower(c) ==
  IF \E j \in 1..Len(UpperSeq) : UpperSeq[j] = c
  THEN LowerSeq[CHOOSE j \in 1..Len(UpperSeq) : UpperSeq[j] = c]
  ELSE c

CaseVariants(c) == {c, ToUpper(c), ToLower(c)}

upper(s) == [j \in 1..Len(s) |-> ToUpper(s[j])]

\* int(c) of a decimal digit
DigitValue(c) == (CHOOSE j \in 1..10 : DigitSeq[j] = c) - 1

\* SUPERSCRIPT TWO: a digit for str.isdigit, no match for \d, no value for int
SuperscriptTwo == "U+00B2"

\* str.isdigit
isdigit(s) == Len(s) > 0 /\ \A j \in 1..Len(s) : s[j] \in Digit \cup {SuperscriptTwo}

\* int(ch) for some character ch of s raises ValueError
int_raises(s) == \E j \in 1..Len(s) : s[j] \notin Digit

\* re.fullmatch(r"\d{n}", s)
fullmatch_digits(s, n) == Len(s) = n /\ \A j \in 1..Len(s) : s[j] \in Digit

Slice(t, i, e) == SubSeq(t, i + 1, e)

(***************************************************************************)
(* Regular expressions: syntax trees and the backtracking matcher          *)
(***************************************************************************)
Inf == 99

Cls(S) == [k |-> "cls", s |-> S]
Cat(parts) == [k |-> "cat", a |-> parts]
Alt(parts) == [k |-> "alt", a |-> parts]
Rep(r, lo, hi) == [k |-> "rep", r |-> r, lo |-> lo, hi |-> hi, greedy |-> TRUE]
RepLazy(r, lo, hi) == [k |-> "rep", r |-> r, lo |-> lo, hi |-> hi, greedy |-> FALSE]
WordBoundary == [k |-> "wb"]
NotBehind(S) == [k |-> "nlb", s |-> S]
NotAhead(S) == [k |-> "nla", s |-> S]
Empty == Cat(<<>>)
Lit(s) == Cat([j \in 1..Len(s) |-> Cls({s[j]})])
LitI(s) == Cat([j \in 1..Len(s) |-> Cls(CaseVariants(s[j]))])

RECURSIVE DedupFrom(_, _, _)
DedupFrom(s, j, acc) ==
  IF j > Len(s) THEN acc
  ELSE DedupFrom(s, j + 1,
                 IF \E n \in 1..Len(acc) : acc[n] = s[j] THEN acc
                 ELSE Append(acc, s[j]))

Dedup(s) == IF Len(s) <= 1 THEN s ELSE DedupFrom(s, 1, <<>>)

IsWordAt(t, p) == p >= 1 /\ p <= Len(t) /\ t[p] \in Word

AtBoundary(t, i) == IsWordAt(t, i) # IsWordAt(t, i + 1)

\* A repeated character class needs no backtracking search: it can stop
\* after lo..m characters, m being the length of the run of class characters
\* (at most hi); the greedy form tries the longest first, the lazy form the
\* shortest.
EndsRepCls(re, t, i) ==
  LET N == IF re.hi < Len(t) - i THEN re.hi ELSE Len(t) - i
      runs == {n \in 0..N : \A j \in 1..n : t[i + j] \in re.r.s}
      m == CHOOSE n \in runs : \A n2 \in runs : n2 <= n
  IN IF m < re.lo THEN <<>>
     ELSE IF re.greedy THEN [n \in 1..(m - re.lo + 1) |-> i + m - n + 1]
     ELSE [n \in 1..(m - re.lo + 1) |-> i + re.lo + n - 1]

RECURSIVE Ends(_, _, _)
RECURSIVE EndsAll(_, _, _, _)
RECURSIVE EndsCat(_, _, _, _)
RECURSIVE EndsAlt(_, _, _, _)
RECURSIVE EndsRep(_, _, _, _, _)
RECURSIVE EndsRepAll(_, _, _, _, _, _)

\* The end positions of the matches of re that start after i characters of
\* t, in the order in which backtracking tries them.
Ends(re, t, i) ==
  CASE re.k = "cls" -> IF i < Len(t) /\ t[i + 1] \in re.s THEN <<i + 1>> ELSE <<>>
    [] re.k = "wb"  -> IF AtBoundary(t, i) THEN <<i>> ELSE <<>>
    [] re.k = "nlb" -> IF i >= 1 /\ t[i] \in re.s THEN <<>> ELSE <<i>>
    [] re.k = "nla" -> IF i < Len(t) /\ t[i + 1] \in re.s THEN <<>> ELSE <<i>>
    [] re.k = "cat" -> EndsCat(re.a, 1, t, <<i>>)
    [] re.k = "alt" -> Dedup(EndsAlt(re.a, 1, t, i))
    [] re.k = "rep" -> IF re.r.k = "cls" THEN EndsRepCls(re, t, i)
                       ELSE EndsRep(re, t, i, 0, [ends |-> <<>>, seen |-> {}]).ends

EndsAll(re, t, starts, n) ==
  IF n > Len(starts) THEN <<>>
  ELSE Ends(re, t, starts[n]) \o EndsAll(re, t, starts, n + 1)

EndsCat(parts, j, t, starts) ==
  IF j > Len(parts) \/ starts = <<>> THEN starts
  ELSE EndsCat(parts, j + 1, t, Dedup(EndsAll(parts[j], t, starts, 1)))

EndsAlt(parts, j, t, i) ==
  IF j > Len(parts) THEN <<>>
  ELSE Ends(parts[j], t, i) \o EndsAlt(parts, j + 1, t, i)

\* The backtracking search of a repetition, depth first: after n
\* iterations that end at i it tries one more iteration (greedy) before or
\* (lazy) after stopping at i.  A pair <<i, n>> that was searched already
\* can only give the same ends again, so it is not searched twice.
EndsRep(re, t, i, n, st) ==
  LET key == <<i, IF re.hi = Inf /\ n > re.lo THEN re.lo ELSE n>> IN
  IF key \in st.seen THEN st
  ELSE LET st1 == [st EXCEPT !.seen = @ \cup {key}]
           inner == IF n < re.hi
                    THEN SelectSeq(Ends(re.r, t, i), LAMBDA e : e > i)
                    ELSE <<>>
           stop(s0) == IF n >= re.lo /\ ~(\E j \in 1..Len(s0.ends) : s0.ends[j] = i)
                       THEN [s0 EXCEPT !.ends = Append(@, i)]
                       ELSE s0
       IN IF re.greedy
          THEN stop(EndsRepAll(re, t, inner, 1, n + 1, st1))
          ELSE EndsRepAll(re, t, inner, 1, n + 1, stop(st1))

EndsRepAll(re, t, starts, j, n, st) ==
  IF j > Len(starts) THEN st
  ELSE EndsRepAll(re, t, starts, j + 1, n, EndsRep(re, t, starts[j], n, st))

\* re.match at position i: the end of the first match, or -1.
MatchEnd(re, t, i) ==
  LET e == Ends(re, t, i) IN IF e = <<>> THEN -1 ELSE e[1]

fullmatch(re, t) == \E n \in 1..Len(Ends(re, t, 0)) : Ends(re, t, 0)[n] = Len(t)


RECURSIVE SumProd(_, _, _)
\* sum(w * int(d) for w, d in zip(weights, digits)), from index j on
SumProd(weights, digits, j) ==
  IF j > Len(weights) \/ j > Len(digits) THEN 0
  ELSE weights[j] * DigitValue(digits[j]) + SumProd(weights, digits, j + 1)

\* re.sub(<class>, "", s): s without the characters of S
Remove(s, S) == SelectSeq(s, LAMBDA c : c \notin S)

\* re.search(r"\d", s)
HasDigit(s) == \E j \in 1..Len(s) : s[j] \in Digit

\* s[::-1]
Reverse(s) == [j \in 1..Len(s) |-> s[Len(s) + 1 - j]]

(***************************************************************************)
(* Validator library (utils/validators.py, rules/nip_rule.py)              *)
(***************************************************************************)
PESEL_WEIGHTS == <<1, 3, 7, 9, 1, 3, 7, 9, 1, 3>>

\* is_valid_pesel without the final "% 10" of the expected checksum.
is_valid_pesel_no_final_mod(pesel) ==
  IF ~(isdigit(pesel) /\ Len(pesel) = 11) THEN FALSE
  ELSE LET checksum_calc == SumProd(PESEL_WEIGHTS, SubSeq(pesel, 1, 10), 1) % 10
           checksum_expected == 10 - checksum_calc
       IN checksum_expected = DigitValue(pesel[11])

is_valid_pesel(pesel) ==
  IF ~(isdigit(pesel) /\ Len(pesel) = 11) THEN FALSE
  ELSE LET checksum_calc == SumProd(PESEL_WEIGHTS, SubSeq(pesel, 1, 10), 1) % 10
           checksum_expected == (10 - checksum_calc) % 10
       IN checksum_expected = DigitValue(pesel[11])

\* is_valid_pesel ends in ValueError: the guard accepts the string and int(ch) fails
is_valid_pesel_raises(pesel) ==
  isdigit(pesel) /\ Len(pesel) = 11 /\ int_raises(pesel)

NIP_WEIGHTS == <<6, 5, 7, 2, 3, 4, 5, 6, 7>>

\* rules/nip_rule.py: the validator NipRule uses
is_valid_nip_rule(raw_nip) ==
  LET digits == Remove(raw_nip, Space \cup {"-"}) IN
  IF ~fullmatch_digits(digits, 10) THEN FALSE
  ELSE SumProd(NIP_WEIGHTS, SubSeq(digits, 1, 9), 1) % 11 = DigitValue(digits[10])

\* utils/validators.py: the library copy of the same check
is_valid_nip(raw_nip) ==
  LET digits == Remove(raw_nip, Space \cup {"-"}) IN
  IF ~fullmatch_digits(digits, 10) THEN FALSE
  ELSE SumProd(NIP_WEIGHTS, SubSeq(digits, 1, 9), 1) % 11 = DigitValue(digits[10])

KRS_WEIGHTS == <<2, 3, 4, 5, 6, 7, 8, 9, 2>>

is_valid_krs(raw_krs) ==
  LET digits == Remove(raw_krs, Space \cup {"-"}) IN
  IF ~fullmatch_digits(digits, 10) THEN FALSE
  ELSE LET control_digit == SumProd(KRS_WEIGHTS, SubSeq(digits, 1, 9), 1) % 11
       IN IF control_digit = 10 THEN FALSE
          ELSE control_digit = DigitValue(digits[10])

REGON_W9 == <<8, 9, 2, 3, 4, 5, 6, 7>>
REGON_W14 == <<2, 3, 4, 5, 6, 7, 8, 9, 2, 3, 4, 5, 6>>

\* checksum of is_valid_regon without the "0 if r == 10" branch
regon_checksum_no_wrap(value, weights) == SumProd(weights, value, 1) % 11

regon_checksum(value, weights) ==
  LET r == SumProd(weights, value, 1) % 11 IN IF r = 10 THEN 0 ELSE r

is_valid_regon(raw_regon) ==
  LET digits == Remove(raw_regon, Space) IN
  IF ~(fullmatch_digits(digits, 9) \/ fullmatch_digits(digits, 14)) THEN FALSE
  ELSE IF Len(digits) = 9
       THEN regon_checksum(SubSeq(digits, 1, 8), REGON_W9) = DigitValue(digits[9])
       ELSE IF regon_checksum(SubSeq(digits, 1, 8), REGON_W9) # DigitValue(digits[9])
            THEN FALSE
            ELSE regon_checksum(SubSeq(digits, 1, 13), REGON_W14) = DigitValue(digits[14])

RECURSIVE luhn_total_from_rightmost(_, _)
\* the loop of _luhn_checksum with the doubling started at the rightmost digit
luhn_total_from_rightmost(digits, j) ==
  IF j > Len(digits) THEN 0
  ELSE LET d == DigitValue(digits[j])
           dd == IF (j - 1) % 2 = 0 THEN (IF 2 * d > 9 THEN 2 * d - 9 ELSE 2 * d) ELSE d
       IN dd + luhn_total_from_rightmost(digits, j + 1)

RECURSIVE luhn_total(_, _)
\* the loop of _luhn_checksum over the reversed digits, from index j (1-based)
luhn_total(digits, j) ==
  IF j > Len(digits) THEN 0
  ELSE LET d == DigitValue(digits[j])
           dd == IF (j - 1) % 2 = 1 THEN (IF 2 * d > 9 THEN 2 * d - 9 ELSE 2 * d) ELSE d
       IN dd + luhn_total(digits, j + 1)

luhn_checksum(number) == luhn_total(Reverse(number), 1) % 10

is_valid_credit_card(number) ==
  LET cleaned == Remove(number, {" ", "-"}) IN
  IF ~isdigit(cleaned) THEN FALSE
  ELSE IF ~(13 <= Len(cleaned) /\ Len(cleaned) <= 19) THEN FALSE
  ELSE luhn_checksum(cleaned) = 0

\* is_valid_credit_card ends in ValueError: _luhn_checksum's int(d) fails
is_valid_credit_card_raises(number) ==
  LET cleaned == Remove(number, {" ", "-"}) IN
  isdigit(cleaned) /\ 13 <= Len(cleaned) /\ Len(cleaned) <= 19 /\ int_raises(cleaned)

is_valid_nrb(nrb) ==
  LET cleaned == Remove(nrb, Space) IN isdigit(cleaned) /\ Len(cleaned) = 26

VIN_LETTERS == <<"A", "B", "C", "D", "E", "F", "G", "H", "J", "K", "L", "M",
                 "N", "P", "R", "S", "T", "U", "V", "W", "X", "Y", "Z">>
VIN_WEIGHTS == <<8, 7, 6, 5, 4, 3, 2, 10, 0, 9, 8, 7, 6, 5, 4, 3, 2>>

\* _VIN_TRANSLATION: enumerate("ABCDEFGHJKLMNPRSTUVWXYZ", start=1), digits as themselves
VIN_TRANSLATION(c) ==
  IF c \in Digit THEN DigitValue(c)
  ELSE CHOOSE j \in 1..Len(VIN_LETTERS) : VIN_LETTERS[j] = c

RECURSIVE vin_total(_, _)
vin_total(vin, j) ==
  IF j > Len(vin) \/ j > Len(VIN_WEIGHTS) THEN 0
  ELSE VIN_TRANSLATION(vin[j]) * VIN_WEIGHTS[j] + vin_total(vin, j + 1)

is_valid_vin(raw_vin) ==
  LET vin == upper(raw_vin) IN
  IF ~(Len(vin) = 17 /\ \A j \in 1..17 : vin[j] \in Digit \cup Range(VIN_LETTERS)) THEN FALSE
  ELSE LET remainder == vin_total(vin, 1) % 11
           check == IF remainder = 10 THEN "X" ELSE DigitSeq[remainder + 1]
       IN vin[9] = check

is_valid_car_plate(plate) ==
  fullmatch(Cat(<< Rep(Cls(Upper), 2, 3), Rep(Cls(Space), 0, 1),
                   Rep(Cls(Digit), 2, 5), Rep(Cls(Upper), 0, 2) >>),
            upper(plate))

is_valid_ssn(ssn) ==
  fullmatch(Cat(<< Rep(Cls(Digit), 3, 3), Cls({"-"}), Rep(Cls(Digit), 2, 2),
                   Cls({"-"}), Rep(Cls(Digit), 4, 4) >>),
            ssn)

is_valid_mac(mac) ==
  fullmatch(Cat(<< Rep(Cat(<< Rep(Cls(HexDigit), 2, 2),
                              Rep(Cls({":", "-"}), 0, 1) >>), 5, 5),
                   Rep(Cls(HexDigit), 2, 2) >>),
            mac)

\* jwt.split("."): the segments between the dots, from position j on
RECURSIVE split_dot(_, _, _)
split_dot(s, j, cur) ==
  IF j > Len(s) THEN <<cur>>
  ELSE IF s[j] = "." THEN <<cur>> \o split_dot(s, j + 1, <<>>)
  ELSE split_dot(s, j + 1, Append(cur, s[j]))

is_possible_jwt(jwt) ==
  LET parts == split_dot(jwt, 1, <<>>) IN
  IF Len(parts) # 3 THEN FALSE
  ELSE \A n \in 1..3 :
         /\ Len(parts[n]) > 0
         /\ \A j \in 1..Len(parts[n]) : parts[n][j] \in Letter \cup Digit \cup {"-", "_"}
         /\ (n <= 2 => Len(parts[n]) >= 20)

is_valid_sim_iccid(iccid) ==
  LET cleaned == Remove(iccid, Space) IN
  isdigit(cleaned) /\ 19 <= Len(cleaned) /\ Len(cleaned) <= 20

is_valid_ssl_serial(serial) ==
  Len(serial) >= 16 /\ Len(serial) <= 40 /\ \A j \in 1..Len(serial) : serial[j] \in HexDigit

is_possible_transaction_ref(ref) ==
  IF ~(8 <= Len(ref) /\ Len(ref) <= 64) THEN FALSE ELSE HasDigit(ref)


(***************************************************************************)
(* Detector rules (rules/*.py), in the order of ALL_MASKER_RULES           *)
(***************************************************************************)
RECURSIVE str_replace_from(_, _, _, _)
str_replace_from(s, old, new, j) ==
  IF j > Len(s) THEN <<>>
  ELSE IF j + Len(old) - 1 <= Len(s) /\ SubSeq(s, j, j + Len(old) - 1) = old
       THEN new \o str_replace_from(s, old, new, j + Len(old))
       ELSE <<s[j]>> \o str_replace_from(s, old, new, j + 1)

\* s.replace(old, new) taken as new alone: nothing of s is kept
str_replace_whole(s, old, new) == new

\* s.replace(old, new) for a non-empty old
str_replace(s, old, new) == str_replace_from(s, old, new, 1)

\* The placeholder each rule class is constructed with (the placeholder
\* argument of super().__init__ in each rule's __init__).
\* Placeholders that are digits between the braces.
placeholder_digits(rule) ==
  IF rule = "PostalCodeRule" THEN <<"{", "{", "0", "0", "-", "0", "0", "0", "}", "}">> ELSE <<"{", "{", "0", "}", "}">>

placeholder(rule) ==
  CASE rule = "CreditCardRule" -> <<"{", "{", "C", "R", "E", "D", "I", "T", "_", "C", "A", "R", "D", "}", "}">>
    [] rule = "VinRule" -> <<"{", "{", "V", "I", "N", "}", "}">>
    [] rule = "PeselTaggedRule" -> <<"{", "{", "P", "E", "S", "E", "L", "_", "T", "A", "G", "G", "E", "D", "}", "}">>
    [] rule = "PeselRule" -> <<"{", "{", "P", "E", "S", "E", "L", "}", "}">>
    [] rule = "NipRule" -> <<"{", "{", "N", "I", "P", "}", "}">>
    [] rule = "KrsRule" -> <<"{", "{", "K", "R", "S", "}", "}">>
    [] rule = "RegonRule" -> <<"{", "{", "R", "E", "G", "O", "N", "}", "}">>
    [] rule = "NrbRule" -> <<"{", "{", "N", "R", "B", "}", "}">>
    [] rule = "MacAddressRule" -> <<"{", "{", "M", "A", "C", "_", "A", "D", "D", "R", "E", "S", "S", "}", "}">>
    [] rule = "PassportRule" -> <<"{", "{", "P", "A", "S", "S", "P", "O", "R", "T", "}", "}">>
    [] rule = "IdCardRule" -> <<"{", "{", "I", "D", "_", "C", "A", "R", "D", "}", "}">>
    [] rule = "SsnRule" -> <<"{", "{", "S", "S", "N", "}", "}">>
    [] rule = "PhoneInternationalRule" -> <<"{", "{", "P", "H", "O", "N", "E", "_", "I", "N", "T", "E", "R", "N", "A", "T", "I", "O", "N", "A", "L", "}", "}">>
    [] rule = "EmailRule" -> <<"{", "{", "E", "M", "A", "I", "L", "}", "}">>
    [] rule = "UrlRule" -> <<"{", "{", "U", "R", "L", "}", "}">>
    [] rule = "IpRule" -> <<"{", "{", "I", "P", "}", "}">>
    [] rule = "BankAccountRule" -> <<"{", "{", "B", "A", "N", "K", "_", "A", "C", "C", "O", "U", "N", "T", "}", "}">>
    [] rule = "JwtRule" -> <<"{", "{", "J", "W", "T", "}", "}">>
    [] rule = "InvoiceNumberRule" -> <<"{", "{", "I", "N", "V", "O", "I", "C", "E", "_", "N", "U", "M", "B", "E", "R", "}", "}">>
    [] rule = "OrderNumberRule" -> <<"{", "{", "O", "R", "D", "E", "R", "_", "N", "U", "M", "B", "E", "R", "}", "}">>
    [] rule = "TransactionRefRule" -> <<"{", "{", "T", "R", "A", "N", "S", "A", "C", "T", "I", "O", "N", "_", "R", "E", "F", "}", "}">>
    [] rule = "DateWordRule" -> <<"{", "{", "D", "A", "T", "E", "_", "S", "T", "R", "}", "}">>
    [] rule = "DateNumberRule" -> <<"{", "{", "D", "A", "T", "E", "_", "N", "U", "M", "}", "}">>
    [] rule = "MoneyRule" -> <<"{", "{", "M", "O", "N", "E", "Y", "}", "}">>
    [] rule = "PostalCodeRule" -> <<"{", "{", "P", "O", "S", "T", "A", "L", "_", "C", "O", "D", "E", "}", "}">>
    [] rule = "HealthIdRule" -> <<"{", "{", "H", "E", "A", "L", "T", "H", "_", "C", "O", "D", "E", "}", "}">>
    [] rule = "CarPlateRule" -> <<"{", "{", "C", "A", "R", "_", "P", "L", "A", "T", "E", "}", "}">>
    [] rule = "SimCardRule" -> <<"{", "{", "S", "I", "M", "_", "C", "A", "R", "D", "}", "}">>
    [] rule = "SslCertRule" -> <<"{", "{", "S", "S", "L", "_", "C", "E", "R", "T", "}", "}">>
    [] rule = "StreetNameRule" -> <<"{", "{", "S", "T", "R", "E", "E", "T", "}", "}">>
    [] rule = "PhoneRule" -> <<"{", "{", "P", "H", "O", "N", "E", "}", "}">>
    [] rule = "SocialIdRule" -> <<"{", "{", "S", "O", "C", "I", "A", "L", "_", "I", "D", "}", "}">>

\* ---- CreditCardRule (maskers/fast_masker/rules/credit_card_rule.py)

CreditCardRule_REGEX ==
  Cat(<<
    WordBoundary,
    Rep(Cls(Digit), 4, 4),
    Rep(Cls({" ", "-"}), 0, 1),
    Rep(Cls(Digit), 4, 4),
    Rep(Cls({" ", "-"}), 0, 1),
    Rep(Cls(Digit), 4, 4),
    Rep(Cls({" ", "-"}), 0, 1),
    Rep(Cls(Digit), 1, 7),
    WordBoundary >>)

\* ---- VinRule (maskers/fast_masker/rules/vin_rule.py)

VinRule_REGEX ==
  Cat(<<
    WordBoundary,
    Rep(Cls(HexDigit \cup {"G", "H", "J", "K", "L", "M", "N", "P", "R", "S", "T", "U", "V", "W", "X", "Y", "Z", "g", "h", "j", "k", "l", "m", "n", "p", "r", "s", "t", "u", "v", "w", "x", "y", "z"}), 17, 17),
    WordBoundary >>)

\* ---- PeselTaggedRule (maskers/fast_masker/rules/pesel_tagged_rule.py)

PeselTaggedRule_REGEX ==
  Cat(<<
    WordBoundary,
    LitI(<<"P", "E", "S", "E", "L">>),
    Rep(Cls(Space \cup {":"}), 1, Inf),
    Rep(Cls(Digit), 11, 11),
    WordBoundary >>)

\* ---- PeselRule (maskers/fast_masker/rules/pesel_rule.py)

PeselRule_REGEX ==
  Cat(<<
    NotBehind(Word),
    Rep(Rep(Cls({"*", "_"}), 1, Inf), 0, 1),
    Rep(Cls(Digit), 11, 11),
    Rep(Rep(Cls({"*", "_"}), 1, Inf), 0, 1),
    NotAhead(Word) >>)

\* ---- NipRule (maskers/fast_masker/rules/nip_rule.py)

NipRule_REGEX ==
  Cat(<<
    NotBehind(Digit),
    Rep(Rep(Cls({"*", "_"}), 1, Inf), 0, 1),
    Alt(<<
        Cat(<<
          Rep(Cls(Digit), 3, 3),
          Rep(Cls({"-"}), 0, 1),
          Rep(Cls(Digit), 3, 3),
          Rep(Cls({"-"}), 0, 1),
          Rep(Cls(Digit), 2, 2),
          Rep(Cls({"-"}), 0, 1),
          Rep(Cls(Digit), 2, 2) >>),
        Rep(Cls(Digit), 10, 10) >>),
    Rep(Rep(Cls({"*", "_"}), 1, Inf), 0, 1),
    NotAhead(Digit) >>)

\* ---- KrsRule (maskers/fast_masker/rules/krs_rule.py)

KrsRule_REGEX ==
  Cat(<<
    WordBoundary,
    Alt(<<
        Cat(<<
          Rep(Cls(Digit), 3, 3),
          Rep(Cls({"-"}), 0, 1),
          Rep(Cls(Digit), 3, 3),
          Rep(Cls({"-"}), 0, 1),
          Rep(Cls(Digit), 2, 2),
          Rep(Cls({"-"}), 0, 1),
          Rep(Cls(Digit), 2, 2) >>),
        Rep(Cls(Digit), 10, 10) >>),
    WordBoundary >>)

\* ---- RegonRule (maskers/fast_masker/rules/regon_rule.py)

RegonRule_REGEX ==
  Cat(<<
    WordBoundary,
    Cat(<<
      Rep(Cls(Digit), 2, 2),
      Rep(Cls(Space), 0, 1),
      Rep(Cls(Digit), 3, 3),
      Rep(Cls(Space), 0, 1),
      Rep(Cls(Digit), 4, 4),
      Rep(Cat(<<
        Rep(Cls(Space), 0, 1),
        Rep(Cls(Digit), 5, 5) >>), 0, 1) >>),
    WordBoundary >>)

\* ---- NrbRule (maskers/fast_masker/rules/nrb_rule.py)

NrbRule_REGEX ==
  Alt(<<
      Cat(<<
        WordBoundary,
        Rep(Cls(Digit), 2, 2),
        Rep(Cls(Space), 0, 1),
        Rep(Cls(Digit), 4, 4),
        Rep(Cls(Space), 0, 1),
        Rep(Cls(Digit), 4, 4),
        Rep(Cls(Space), 0, 1),
        Rep(Cls(Digit), 4, 4),
        Rep(Cls(Space), 0, 1),
        Rep(Cls(Digit), 4, 4),
        Rep(Cls(Space), 0, 1),
        Rep(Cls(Digit), 4, 4),
        Rep(Cls(Space), 0, 1),
        Rep(Cls(Digit), 4, 4) >>),
      Cat(<<
        Rep(Cls(Digit), 26, 26),
        WordBoundary >>) >>)

\* ---- MacAddressRule (maskers/fast_masker/rules/mac_address_rule.py)

MacAddressRule_REGEX ==
  Cat(<<
    WordBoundary,
    Rep(Cat(<<
      Rep(Cls(HexDigit), 2, 2),
      Rep(Cls({"-", ":"}), 0, 1) >>), 5, 5),
    Rep(Cls(HexDigit), 2, 2),
    WordBoundary >>)

\* ---- PassportRule (maskers/fast_masker/rules/passport_rule.py)

PassportRule_REGEX ==
  Cat(<<
    WordBoundary,
    Rep(Cls(Letter), 2, 2),
    Rep(Cls(Digit), 7, 7),
    WordBoundary >>)

\* ---- IdCardRule (maskers/fast_masker/rules/id_card_rule.py)

IdCardRule_REGEX ==
  Cat(<<
    WordBoundary,
    Rep(Cls(Letter), 3, 3),
    Rep(Cls(Digit), 6, 6),
    WordBoundary >>)

\* ---- SsnRule (maskers/fast_masker/rules/ssn_rule.py)

SsnRule_REGEX ==
  Cat(<<
    WordBoundary,
    Rep(Cls(Digit), 3, 3),
    Cls({"-"}),
    Rep(Cls(Digit), 2, 2),
    Cls({"-"}),
    Rep(Cls(Digit), 4, 4),
    WordBoundary >>)

\* ---- PhoneInternationalRule (maskers/fast_masker/rules/phone_international_rule.py)

PhoneInternationalRule_REGEX ==
  Cat(<<
    WordBoundary,
    Cls({"+"}),
    Rep(Cls(Digit), 1, 3),
    Rep(Cat(<<
      Rep(Cls({" ", "-"}), 0, 1),
      Rep(Cls(Digit), 1, 4) >>), 2, 5),
    WordBoundary >>)

\* ---- EmailRule (maskers/fast_masker/rules/email_rule.py)

EmailRule_REGEX ==
  Cat(<<
    Rep(Cls({"_"}), 0, 1),
    Rep(Cls(Letter \cup Digit \cup {"%", "+", "-", ".", "_"}), 1, Inf),
    Cls({"@"}),
    Rep(Cls(Letter \cup Digit \cup {"-", "."}), 1, Inf),
    Cls({"."}),
    Rep(Cls(Letter), 2, Inf),
    Rep(Cls({"_"}), 0, 1) >>)

\* ---- UrlRule (maskers/fast_masker/rules/url_rule.py)

UrlRule_REGEX ==
  Alt(<<
      Cat(<<
        WordBoundary,
        LitI(<<"h", "t", "t", "p">>),
        Rep(LitI(<<"s">>), 0, 1),
        Lit(<<":", "/", "/">>),
        Rep(Cat(<<
          Rep(Cls(Letter \cup Digit \cup {"-"}), 1, Inf),
          Cls({"."}) >>), 0, Inf),
        Rep(Cls(Letter \cup Digit \cup {"-"}), 1, Inf),
        Cls({"."}),
        Rep(Cls(Letter), 2, Inf),
        Rep(Cat(<<
          Cls({"/", ":"}),
          Rep(Cls(Chars \ (Space \cup {")"})), 0, Inf) >>), 0, 1) >>),
      Cat(<<
        NotBehind(Letter \cup Digit \cup {"_"}),
        Alt(<<
          LitI(<<"w", "w", "w", ".">>),
          Cat(<<
            Rep(Cls(Letter \cup Digit \cup {"-"}), 1, Inf),
            Cls({"."}) >>) >>),
        Rep(Cls(Letter \cup Digit \cup {"-"}), 1, Inf),
        Cls({"."}),
        Alt(<<
          LitI(<<"c", "o", "m">>),
          LitI(<<"o", "r", "g">>),
          LitI(<<"n", "e", "t">>),
          LitI(<<"e", "d", "u">>),
          LitI(<<"g", "o", "v">>),
          LitI(<<"p", "l">>),
          LitI(<<"d", "e", "v">>),
          LitI(<<"i", "o">>),
          LitI(<<"c", "o">>),
          LitI(<<"u", "k">>),
          LitI(<<"d", "e">>),
          LitI(<<"f", "r">>),
          LitI(<<"i", "t">>),
          LitI(<<"e", "s">>),
          LitI(<<"r", "u">>),
          LitI(<<"c", "n">>),
          LitI(<<"j", "p">>),
          LitI(<<"b", "r">>),
          LitI(<<"a", "u">>),
          LitI(<<"i", "n">>),
          LitI(<<"n", "l">>),
          LitI(<<"s", "e">>),
          LitI(<<"n", "o">>),
          LitI(<<"f", "i">>),
          LitI(<<"d", "k">>),
          LitI(<<"c", "z">>),
          LitI(<<"s", "k">>),
          LitI(<<"e", "u">>),
          LitI(<<"i", "n", "f", "o">>),
          LitI(<<"b", "i", "z">>) >>),
        WordBoundary,
        NotAhead(Letter \cup Digit \cup {"(", "_"}) >>) >>)

\* ---- IpRule (maskers/fast_masker/rules/ip_rule.py)

IpRule_IPv4_REGEX ==
  Cat(<<
    Rep(Cat(<<
      Rep(Cls(Digit), 1, 3),
      Cls({"."}) >>), 3, 3),
    Rep(Cls(Digit), 1, 3) >>)

IpRule_IPv6_REGEX ==
  Cat(<<
    Rep(Cat(<<
      Rep(Cls(HexDigit), 1, 4),
      Cls({":"}) >>), 7, 7),
    Rep(Cls(HexDigit), 1, 4) >>)

IpRule_ADDRESS_REGEX ==
  Alt(<<
        Lit(<<"l", "o", "c", "a", "l", "h", "o", "s", "t">>),
        IpRule_IPv4_REGEX,
        IpRule_IPv6_REGEX >>)

IpRule_PORT_REGEX ==
  Rep(Cat(<<
      Cls({":"}),
      Rep(Cls(Digit), 1, 5) >>), 0, 1)

IpRule_REGEX ==
  Cat(<<
    WordBoundary,
    IpRule_ADDRESS_REGEX,
    IpRule_PORT_REGEX,
    WordBoundary >>)

\* The text captured by the group "port" of the match that starts at i, or
\* <<>> when the group did not take part in the match.
IpRule_port(t, i) ==
  LET addr_ends == Ends(Cat(<<WordBoundary, IpRule_ADDRESS_REGEX>>), t, i)
      rest == Cat(<<IpRule_PORT_REGEX, WordBoundary>>)
      a == addr_ends[CHOOSE n \in 1..Len(addr_ends) :
                       /\ Ends(rest, t, addr_ends[n]) # <<>>
                       /\ \A n2 \in 1..(n - 1) : Ends(rest, t, addr_ends[n2]) = <<>>]
      e == Ends(rest, t, a)[1]
  IN IF e > a THEN Slice(t, a + 1, e) ELSE <<>>

\* replacer without the branch on match.group("port").
IpRule_replacer_no_port(t, i) == placeholder("IpRule")

IpRule_replacer(t, i) ==
  IF IpRule_port(t, i) # <<>>
  THEN placeholder("IpRule") \o <<":">> \o <<"{", "{", "P", "O", "R", "T", "}", "}">>
  ELSE placeholder("IpRule")

\* ---- BankAccountRule (maskers/fast_masker/rules/bank_account_rule.py)

BankAccountRule_REGEX ==
  Cat(<<
    WordBoundary,
    Rep(Alt(<<
        Rep(Cls(Letter), 2, 2),
        LitI(<<"X", "X">>) >>), 0, 1),
    Rep(Cls(Space), 0, Inf),
    Alt(<<
      Rep(Cls(Digit), 2, 2),
      LitI(<<"X", "X">>) >>),
    Rep(Cat(<<
      Rep(Cls(Space), 0, Inf),
      Rep(Cls(Digit \cup {"X", "x"}), 4, 4) >>), 6, 6),
    WordBoundary >>)

\* ---- JwtRule (maskers/fast_masker/rules/jwt_rule.py)

JwtRule_REGEX ==
  Cat(<<
    WordBoundary,
    Rep(Cls(Letter \cup Digit \cup {"-", "_"}), 1, Inf),
    Cls({"."}),
    Rep(Cls(Letter \cup Digit \cup {"-", "_"}), 1, Inf),
    Cls({"."}),
    Rep(Cls(Letter \cup Digit \cup {"-", "_"}), 1, Inf),
    WordBoundary >>)

\* ---- InvoiceNumberRule (maskers/fast_masker/rules/invoice_number_rule.py)

InvoiceNumberRule_REGEX ==
  Cat(<<
    WordBoundary,
    Alt(<<
      LitI(<<"F", "V">>),
      LitI(<<"I", "N", "V">>),
      LitI(<<"I", "N", "V", "O", "I", "C", "E">>) >>),
    Cls({"-", "/"}),
    Rep(Cls(Digit), 4, 4),
    Cls({"-", "/"}),
    Rep(Cls(Digit), 3, 6),
    WordBoundary >>)

\* ---- OrderNumberRule (maskers/fast_masker/rules/order_number_rule.py)

OrderNumberRule_REGEX ==
  Cat(<<
    WordBoundary,
    LitI(<<"O", "R", "D">>),
    Alt(<<
      Empty,
      LitI(<<"E", "R">>) >>),
    Rep(Cls({"-", "_"}), 0, 1),
    Rep(Cls(Digit), 3, 10),
    WordBoundary >>)

\* ---- TransactionRefRule (maskers/fast_masker/rules/transaction_ref_rule.py)

TransactionRefRule_REGEX ==
  Cat(<<
    WordBoundary,
    Rep(Cls(Letter), 2, 5),
    Cls({"-", "_"}),
    Rep(Cls(Digit), 4, 8),
    Cls({"-", "_"}),
    Rep(Cls(Digit), 3, 6),
    WordBoundary >>)

\* ---- DateWordRule (maskers/fast_masker/rules/date_word_rule.py)

DateWordRule_PL_MONTHS ==
  Alt(<<
      LitI(<<"s", "t", "y", "c", "z", "e", "U+0144">>),
      LitI(<<"s", "t", "y", "c", "z", "n", "i", "a">>),
      LitI(<<"s", "t", "y">>),
      LitI(<<"l", "u", "t", "y">>),
      LitI(<<"l", "u", "t", "e", "g", "o">>),
      LitI(<<"l", "u", "t">>),
      LitI(<<"m", "a", "r", "z", "e", "c">>),
      LitI(<<"m", "a", "r", "c", "a">>),
      LitI(<<"m", "a", "r">>),
      LitI(<<"k", "w", "i", "e", "c", "i", "e", "U+0144">>),
      LitI(<<"k", "w", "i", "e", "t", "n", "i", "a">>),
      LitI(<<"k", "w", "i">>),
      LitI(<<"m", "a", "j">>),
      LitI(<<"m", "a", "j", "a">>),
      LitI(<<"c", "z", "e", "r", "w", "i", "e", "c">>),
      LitI(<<"c", "z", "e", "r", "w", "c", "a">>),
      LitI(<<"c", "z", "e">>),
      LitI(<<"l", "i", "p", "i", "e", "c">>),
      LitI(<<"l", "i", "p", "c", "a">>),
      LitI(<<"l", "i", "p">>),
      LitI(<<"s", "i", "e", "r", "p", "i", "e", "U+0144">>),
      LitI(<<"s", "i", "e", "r", "p", "n", "i", "a">>),
      LitI(<<"s", "i", "e">>),
      LitI(<<"w", "r", "z", "e", "s", "i", "e", "U+0144">>),
      LitI(<<"w", "r", "z", "e", "U+015B", "n", "i", "a">>),
      LitI(<<"w", "r", "z">>),
      LitI(<<"p", "a", "U+017A", "d", "z", "i", "e", "r", "n", "i", "k">>),
      LitI(<<"p", "a", "U+017A", "d", "z", "i", "e", "r", "n", "i", "k", "a">>),
      LitI(<<"p", "a", "U+017A">>),
      LitI(<<"l", "i", "s", "t", "o", "p", "a", "d">>),
      LitI(<<"l", "i", "s", "t", "o", "p", "a", "d", "a">>),
      LitI(<<"l", "i", "s">>),
      LitI(<<"g", "r", "u", "d", "z", "i", "e", "U+0144">>),
      LitI(<<"g", "r", "u", "d", "n", "i", "a">>),
      LitI(<<"g", "r", "u">>) >>)

DateWordRule_EN_MONTHS ==
  Alt(<<
      LitI(<<"J", "a", "n", "u", "a", "r", "y">>),
      LitI(<<"J", "a", "n">>),
      LitI(<<"F", "e", "b", "r", "u", "a", "r", "y">>),
      LitI(<<"F", "e", "b">>),
      LitI(<<"M", "a", "r", "c", "h">>),
      LitI(<<"M", "a", "r">>),
      LitI(<<"A", "p", "r", "i", "l">>),
      LitI(<<"A", "p", "r">>),
      LitI(<<"M", "a", "y">>),
      LitI(<<"J", "u", "n", "e">>),
      LitI(<<"J", "u", "n">>),
      LitI(<<"J", "u", "l", "y">>),
      LitI(<<"J", "u", "l">>),
      LitI(<<"A", "u", "g", "u", "s", "t">>),
      LitI(<<"A", "u", "g">>),
      LitI(<<"S", "e", "p", "t", "e", "m", "b", "e", "r">>),
      LitI(<<"S", "e", "p">>),
      LitI(<<"O", "c", "t", "o", "b", "e", "r">>),
      LitI(<<"O", "c", "t">>),
      LitI(<<"N", "o", "v", "e", "m", "b", "e", "r">>),
      LitI(<<"N", "o", "v">>),
      LitI(<<"D", "e", "c", "e", "m", "b", "e", "r">>),
      LitI(<<"D", "e", "c">>) >>)

DateWordRule_REGEX ==
  Cat(<<
    NotBehind(Word),
    Alt(<<
      Cat(<<
        Rep(Cls(Digit), 1, 2),
        Rep(Cls(Space), 1, Inf),
        DateWordRule_PL_MONTHS,
        Rep(Cls(Space), 1, Inf),
        Rep(Cls(Digit), 4, 4) >>),
      Cat(<<
        Rep(Cls(Digit), 4, 4),
        Rep(Cls(Space), 1, Inf),
        DateWordRule_PL_MONTHS,
        Rep(Cls(Space), 1, Inf),
        Rep(Cls(Digit), 1, 2) >>),
      Cat(<<
        DateWordRule_EN_MONTHS,
        Rep(Cls(Space), 1, Inf),
        Rep(Cls(Digit), 1, 2),
        Rep(Alt(<<
            LitI(<<"s", "t">>),
            LitI(<<"n", "d">>),
            LitI(<<"r", "d">>),
            LitI(<<"t", "h">>) >>), 0, 1),
        Alt(<<
          Cat(<<
            Cls({","}),
            Rep(Cls(Space), 0, Inf) >>),
          Rep(Cls(Space), 1, Inf) >>),
        Rep(Cls(Digit), 4, 4) >>),
      Cat(<<
        Rep(Cls(Digit), 1, 2),
        Rep(Alt(<<
            LitI(<<"s", "t">>),
            LitI(<<"n", "d">>),
            LitI(<<"r", "d">>),
            LitI(<<"t", "h">>) >>), 0, 1),
        Rep(Cls(Space), 1, Inf),
        DateWordRule_EN_MONTHS,
        Rep(Cls(Space), 1, Inf),
        Rep(Cls(Digit), 4, 4) >>) >>),
    NotAhead(Word) >>)

\* ---- DateNumberRule (maskers/fast_masker/rules/date_number_rule.py)

DateNumberRule_REGEX ==
  Cat(<<
    NotBehind(Digit),
    Alt(<<
      Cat(<<
        Rep(Cls(Digit), 4, 4),
        Rep(Cls(Space), 0, Inf),
        Cls({"-", ".", "/"}),
        Rep(Cls(Space), 0, Inf),
        Alt(<<
            Cat(<<
              Cls({"0"}),
              Cls({"1", "2", "3", "4", "5", "6", "7", "8", "9"}) >>),
            Cat(<<
              Cls({"1"}),
              Cls({"0", "1", "2"}) >>) >>),
        Rep(Cls(Space), 0, Inf),
        Cls({"-", ".", "/"}),
        Rep(Cls(Space), 0, Inf),
        Alt(<<
            Cat(<<
              Cls({"0"}),
              Cls({"1", "2", "3", "4", "5", "6", "7", "8", "9"}) >>),
            Cat(<<
              Cls({"1", "2"}),
              Cls(Digit) >>),
            Cat(<<
              Cls({"3"}),
              Cls({"0", "1"}) >>) >>) >>),
      Cat(<<
        Alt(<<
            Cat(<<
              Cls({"0"}),
              Cls({"1", "2", "3", "4", "5", "6", "7", "8", "9"}) >>),
            Cat(<<
              Cls({"1", "2"}),
              Cls(Digit) >>),
            Cat(<<
              Cls({"3"}),
              Cls({"0", "1"}) >>) >>),
        Rep(Cls(Space), 0, Inf),
        Cls({"-", ".", "/"}),
        Rep(Cls(Space), 0, Inf),
        Alt(<<
            Cat(<<
              Cls({"0"}),
              Cls({"1", "2", "3", "4", "5", "6", "7", "8", "9"}) >>),
            Cat(<<
              Cls({"1"}),
              Cls({"0", "1", "2"}) >>) >>),
        Rep(Cls(Space), 0, Inf),
        Cls({"-", ".", "/"}),
        Rep(Cls(Space), 0, Inf),
        Rep(Cls(Digit), 4, 4) >>) >>),
    NotAhead(Digit) >>)

\* ---- MoneyRule (maskers/fast_masker/rules/money_rule.py)

MoneyRule_CURRENCY_SYMBOLS ==
  Cls({"$", "U+00A3", "U+00A5", "U+20AC", "U+20B9", "U+20BD"})

MoneyRule_CURRENCY_CODES ==
  Alt(<<
      LitI(<<"U", "S", "D">>),
      LitI(<<"E", "U", "R">>),
      LitI(<<"G", "B", "P">>),
      LitI(<<"P", "L", "N">>),
      LitI(<<"C", "H", "F">>),
      LitI(<<"C", "A", "D">>),
      LitI(<<"A", "U", "D">>),
      LitI(<<"J", "P", "Y">>),
      LitI(<<"N", "O", "K">>),
      LitI(<<"S", "E", "K">>),
      LitI(<<"D", "K", "K">>),
      LitI(<<"C", "Z", "K">>),
      LitI(<<"H", "U", "F">>),
      LitI(<<"R", "U", "B">>),
      LitI(<<"C", "N", "Y">>),
      LitI(<<"I", "N", "R">>) >>)

MoneyRule_CURRENCY_WORDS ==
  Alt(<<
        LitI(<<"z", "U+0142">>),
        LitI(<<"z", "U+0142", ".">>),
        LitI(<<"z", "U+0142", "o", "t", "y">>),
        LitI(<<"z", "U+0142", "o", "t", "e">>),
        LitI(<<"z", "U+0142", "o", "t", "y", "c", "h">>),
        LitI(<<"z", "U+0142", "o", "t", "y", "m", "i">>),
        LitI(<<"d", "o", "l", "a", "r">>),
        LitI(<<"d", "o", "l", "a", "r", "a">>),
        LitI(<<"d", "o", "l", "a", "r", "U+00F3", "w">>),
        LitI(<<"d", "o", "l", "a", "r", "y">>),
        LitI(<<"d", "o", "l", "a", "r", "a", "m", "i">>),
        LitI(<<"e", "u", "r", "o">>),
        LitI(<<"e", "u", "r", ".">>),
        LitI(<<"e", "u", "r", "a">>),
        LitI(<<"e", "u", "r", "U+00F3", "w">>),
        LitI(<<"e", "u", "r", "e", "m">>),
        LitI(<<"f", "u", "n", "t">>),
        LitI(<<"f", "u", "n", "t", "y">>),
        LitI(<<"f", "u", "n", "t", "U+00F3", "w">>),
        LitI(<<"f", "u", "n", "t", "a", "m", "i">>),
        LitI(<<"r", "u", "b", "e", "l">>),
        LitI(<<"r", "u", "b", "l", "a">>),
        LitI(<<"r", "u", "b", "l", "i">>),
        LitI(<<"r", "u", "b", "l", "a", "m", "i">>) >>)

MoneyRule_MAGNITUDE_WORDS ==
  Alt(<<
        LitI(<<"t", "y", "s", ".">>),
        LitI(<<"m", "l", "n">>),
        LitI(<<"m", "l", "d">>) >>)

MoneyRule_NUMBER ==
  Cat(<<
    Rep(Cls(Digit), 1, 3),
    Rep(Cat(<<
      Cls({" ", ",", ".", "U+00A0"}),
      Rep(Cls(Digit), 3, 3) >>), 0, Inf),
    Rep(Cat(<<
      Cls({",", "."}),
      Rep(Cls(Digit), 1, 2) >>), 0, 1) >>)

\* _MONEY_REGEX without the currency prefix and suffix: any number matches.
MoneyRule_REGEX_any_number ==
  Cat(<< NotBehind(Word), MoneyRule_NUMBER, NotAhead(Word) >>)

MoneyRule_REGEX ==
  Cat(<<
    NotBehind(Word),
    Rep(Rep(Cls({"*", "_"}), 1, Inf), 0, 1),
    Alt(<<
      Cat(<<
        Alt(<<
            MoneyRule_CURRENCY_SYMBOLS,
            MoneyRule_CURRENCY_CODES >>),
        RepLazy(Cls(Space), 0, Inf),
        MoneyRule_NUMBER,
        Rep(Cat(<<
          Rep(Cls(Space), 0, Inf),
          MoneyRule_MAGNITUDE_WORDS >>), 0, 1),
        Rep(Cat(<<
          Rep(Cls(Space), 0, Inf),
          Alt(<<
              MoneyRule_CURRENCY_SYMBOLS,
              MoneyRule_CURRENCY_CODES,
              MoneyRule_CURRENCY_WORDS >>) >>), 0, 1) >>),
      Cat(<<
        MoneyRule_NUMBER,
        Rep(Cat(<<
          Rep(Cls(Space), 0, Inf),
          MoneyRule_MAGNITUDE_WORDS >>), 0, 1),
        Rep(Cls(Space), 0, Inf),
        Alt(<<
            MoneyRule_CURRENCY_SYMBOLS,
            MoneyRule_CURRENCY_CODES,
            MoneyRule_CURRENCY_WORDS >>) >>) >>),
    Rep(Rep(Cls({"*", "_"}), 1, Inf), 0, 1),
    NotAhead(Word) >>)

\* ---- PostalCodeRule (maskers/fast_masker/rules/postal_code_rule.py)

PostalCodeRule_REGEX ==
  Cat(<<
    NotBehind(Digit),
    Rep(Rep(Cls({"*", "_"}), 1, Inf), 0, 1),
    Cat(<<
      Rep(Cls(Digit), 2, 2),
      Rep(Cls({"-"}), 0, 1),
      Rep(Cls(Digit), 3, 3) >>),
    Rep(Rep(Cls({"*", "_"}), 1, Inf), 0, 1),
    NotAhead(Digit) >>)

\* ---- HealthIdRule (maskers/fast_masker/rules/health_id_rule.py)

HealthIdRule_REGEX ==
  Cat(<<
    WordBoundary,
    Rep(Cls(Digit), 8, 8),
    Cls({"/"}),
    Rep(Cls(Digit), 3, 3),
    WordBoundary >>)

\* ---- CarPlateRule (maskers/fast_masker/rules/car_plate_rule.py)

CarPlateRule_REGEX ==
  Cat(<<
    WordBoundary,
    Rep(Cls(Letter), 2, 3),
    Rep(Cls(Space), 0, 1),
    Rep(Cls(Digit), 2, 5),
    Rep(Cls(Letter), 0, 2),
    WordBoundary >>)

\* ---- SimCardRule (maskers/fast_masker/rules/sim_card_rule.py)

SimCardRule_REGEX ==
  Cat(<<
    WordBoundary,
    Rep(Cat(<<
      Rep(Cls(Digit), 4, 4),
      Rep(Cls(Space), 0, 1) >>), 4, 4),
    Rep(Cls(Digit), 3, 3),
    WordBoundary >>)

\* ---- SslCertRule (maskers/fast_masker/rules/ssl_cert_rule.py)

SslCertRule_REGEX ==
  Cat(<<
    WordBoundary,
    Rep(Cls(HexDigit), 16, 40),
    WordBoundary >>)

\* ---- StreetNameRule (maskers/fast_masker/rules/beta/street_rule.py)

StreetNameRule_TYPE ==
  Alt(<<
      Cat(<<
        LitI(<<"u", "l">>),
        Rep(Cls({"."}), 0, 1) >>),
      LitI(<<"u", "l", "i", "c", "a">>),
      Cat(<<
        LitI(<<"a", "l">>),
        Rep(Cls({"."}), 0, 1) >>),
      LitI(<<"a", "l", "e", "j", "a">>),
      Cat(<<
        LitI(<<"p", "l">>),
        Rep(Cls({"."}), 0, 1) >>),
      LitI(<<"p", "l", "a", "c">>),
      LitI(<<"s", "k", "w", "e", "r">>),
      Cat(<<
        LitI(<<"o", "s">>),
        Rep(Cls({"."}), 0, 1) >>),
      LitI(<<"o", "s", "i", "e", "d", "l", "e">>),
      LitI(<<"r", "o", "n", "d", "o">>),
      LitI(<<"d", "r", "o", "g", "a">>),
      Cat(<<
        LitI(<<"d", "r">>),
        Rep(Cls({"."}), 0, 1) >>),
      LitI(<<"t", "r", "a", "k", "t">>),
      Cat(<<
        LitI(<<"t">>),
        Rep(Cls({"."}), 0, 1) >>),
      LitI(<<"U+015B", "c", "i", "e", "U+017C", "k", "a">>),
      Cat(<<
        LitI(<<"U+015B">>),
        Rep(Cls({"."}), 0, 1) >>) >>)

StreetNameRule_NAME ==
  Rep(Cat(<<
      Rep(Cls(Space), 1, Inf),
      Cls(Letter \cup PolishLetter),
      Rep(Cls(Letter \cup Digit \cup {"-"} \cup PolishLetter), 0, Inf) >>), 1, 5)

StreetNameRule_NUMBER ==
  Rep(Cat(<<
      Rep(Cls(Space), 1, Inf),
      Rep(Cls(Digit), 1, Inf),
      Rep(Cls(Letter), 0, 1),
      Rep(Cat(<<
        Cls({"/"}),
        Rep(Cls(Digit), 1, Inf) >>), 0, 1) >>), 0, 1)

StreetNameRule_REGEX ==
  Cat(<<
    WordBoundary,
    StreetNameRule_TYPE,
    StreetNameRule_NAME,
    StreetNameRule_NUMBER,
    WordBoundary >>)

\* ---- PhoneRule (maskers/fast_masker/rules/phone_rule.py)

PhoneRule_REGEX ==
  Cat(<<
    WordBoundary,
    Alt(<<
      Cat(<<
        Rep(Cls(Digit), 3, 3),
        Rep(Cls(Space \cup {"-"}), 0, 1),
        Rep(Cls(Digit), 3, 3),
        Rep(Cls(Space \cup {"-"}), 0, 1),
        Rep(Cls(Digit), 3, 3) >>),
      Cat(<<
        Rep(Cls(Digit), 2, 2),
        Rep(Cls(Space \cup {"-"}), 0, 1),
        Rep(Cls(Digit), 3, 3),
        Rep(Cls(Space \cup {"-"}), 0, 1),
        Rep(Cls(Digit), 2, 2),
        Rep(Cls(Space \cup {"-"}), 0, 1),
        Rep(Cls(Digit), 2, 2) >>) >>),
    WordBoundary >>)

\* ---- SocialIdRule (maskers/fast_masker/rules/social_id_rule.py)

SocialIdRule_REGEX ==
  Cat(<<
    WordBoundary,
    LitI(<<"f", "b", "i", "d">>),
    Rep(Cls(Digit), 8, Inf),
    WordBoundary >>)

(***************************************************************************)
(* BaseRule and rule application                                           *)
(***************************************************************************)
pattern(rule) ==
  CASE
       rule = "CreditCardRule" -> CreditCardRule_REGEX
    [] rule = "VinRule" -> VinRule_REGEX
    [] rule = "PeselTaggedRule" -> PeselTaggedRule_REGEX
    [] rule = "PeselRule" -> PeselRule_REGEX
    [] rule = "NipRule" -> NipRule_REGEX
    [] rule = "KrsRule" -> KrsRule_REGEX
    [] rule = "RegonRule" -> RegonRule_REGEX
    [] rule = "NrbRule" -> NrbRule_REGEX
    [] rule = "MacAddressRule" -> MacAddressRule_REGEX
    [] rule = "PassportRule" -> PassportRule_REGEX
    [] rule = "IdCardRule" -> IdCardRule_REGEX
    [] rule = "SsnRule" -> SsnRule_REGEX
    [] rule = "PhoneInternationalRule" -> PhoneInternationalRule_REGEX
    [] rule = "EmailRule" -> EmailRule_REGEX
    [] rule = "UrlRule" -> UrlRule_REGEX
    [] rule = "IpRule" -> IpRule_REGEX
    [] rule = "BankAccountRule" -> BankAccountRule_REGEX
    [] rule = "JwtRule" -> JwtRule_REGEX
    [] rule = "InvoiceNumberRule" -> InvoiceNumberRule_REGEX
    [] rule = "OrderNumberRule" -> OrderNumberRule_REGEX
    [] rule = "TransactionRefRule" -> TransactionRefRule_REGEX
    [] rule = "DateWordRule" -> DateWordRule_REGEX
    [] rule = "DateNumberRule" -> DateNumberRule_REGEX
    [] rule = "MoneyRule" -> MoneyRule_REGEX
    [] rule = "PostalCodeRule" -> PostalCodeRule_REGEX
    [] rule = "HealthIdRule" -> HealthIdRule_REGEX
    [] rule = "CarPlateRule" -> CarPlateRule_REGEX
    [] rule = "SimCardRule" -> SimCardRule_REGEX
    [] rule = "SslCertRule" -> SslCertRule_REGEX
    [] rule = "StreetNameRule" -> StreetNameRule_REGEX
    [] rule = "PhoneRule" -> PhoneRule_REGEX
    [] rule = "SocialIdRule" -> SocialIdRule_REGEX

\* The value the rule's replacement callback returns for the match t[i+1..e]
\* (the placeholder itself for the rules that keep BaseRule.apply or
\* substitute unconditionally).
replacement(rule, t, i, e) ==
  LET m == Slice(t, i, e) IN
  CASE
       rule = "CreditCardRule" ->
         (IF is_valid_credit_card(m) THEN placeholder("CreditCardRule") ELSE m)
    [] rule = "VinRule" ->
         (IF is_valid_vin(m) THEN placeholder("VinRule") ELSE m)
    [] rule = "PeselTaggedRule" ->
         (LET pesel == SubSeq(m, Len(m) - 10, Len(m)) IN
          IF is_valid_pesel(pesel) THEN str_replace(m, pesel, placeholder("PeselTaggedRule")) ELSE m)
    [] rule = "PeselRule" ->
         (LET pesel == Remove(m, {"_", "*"}) IN
          IF is_valid_pesel(pesel) THEN placeholder("PeselRule") ELSE pesel)
    [] rule = "NipRule" ->
         (LET raw_nip == Remove(m, {"_", "*"}) IN
          IF is_valid_nip_rule(raw_nip) THEN placeholder("NipRule") ELSE m)
    [] rule = "KrsRule" ->
         (LET raw_krs == m IN
          IF is_valid_krs(raw_krs) THEN placeholder("KrsRule") ELSE raw_krs)
    [] rule = "RegonRule" ->
         (LET raw_regon == m IN
          IF is_valid_regon(raw_regon) THEN placeholder("RegonRule") ELSE raw_regon)
    [] rule = "NrbRule" ->
         (IF is_valid_nrb(m) THEN placeholder("NrbRule") ELSE m)
    [] rule = "MacAddressRule" ->
         (IF is_valid_mac(m) THEN placeholder("MacAddressRule") ELSE m)
    [] rule = "SsnRule" ->
         (IF is_valid_ssn(m) THEN placeholder("SsnRule") ELSE m)
    [] rule = "JwtRule" ->
         (IF is_possible_jwt(m) THEN placeholder("JwtRule") ELSE m)
    [] rule = "TransactionRefRule" ->
         (IF is_possible_transaction_ref(m) THEN placeholder("TransactionRefRule") ELSE m)
    [] rule = "CarPlateRule" ->
         (IF is_valid_car_plate(m) THEN placeholder("CarPlateRule") ELSE m)
    [] rule = "SimCardRule" ->
         (IF is_valid_sim_iccid(m) THEN placeholder("SimCardRule") ELSE m)
    [] rule = "SslCertRule" ->
         (IF is_valid_ssl_serial(m) THEN placeholder("SslCertRule") ELSE m)
    [] rule = "IpRule" -> IpRule_replacer(t, i)
    [] OTHER -> placeholder(rule)

RECURSIVE sub(_, _, _)
\* pattern.sub(repl, text): scan from position i, replace every
\* non-overlapping match, copy everything else.
sub(rule, t, i) ==
  LET e == MatchEnd(pattern(rule), t, i) IN
  IF e > i THEN replacement(rule, t, i, e) \o sub(rule, t, e)
  ELSE IF i >= Len(t) THEN (IF e = i THEN replacement(rule, t, i, e) ELSE <<>>)
  ELSE (IF e = i THEN replacement(rule, t, i, e) ELSE <<>>)
       \o <<t[i + 1]>> \o sub(rule, t, i + 1)

apply(rule, text) == sub(rule, text, 0)

\* The default list with KrsRule moved in front of NipRule.
ALL_MASKER_RULES_krs_first ==
  <<"CreditCardRule", "VinRule", "PeselTaggedRule", "PeselRule",
    "KrsRule", "NipRule", "RegonRule", "NrbRule",
    "MacAddressRule", "PassportRule", "IdCardRule", "SsnRule",
    "PhoneInternationalRule", "EmailRule", "UrlRule", "IpRule",
    "BankAccountRule", "JwtRule", "InvoiceNumberRule", "OrderNumberRule",
    "TransactionRefRule", "DateWordRule", "DateNumberRule", "MoneyRule",
    "PostalCodeRule", "HealthIdRule", "CarPlateRule", "SimCardRule",
    "SslCertRule", "StreetNameRule", "PhoneRule", "SocialIdRule">>

ALL_MASKER_RULES ==
  <<"CreditCardRule",
    "VinRule",
    "PeselTaggedRule",
    "PeselRule",
    "NipRule",
    "KrsRule",
    "RegonRule",
    "NrbRule",
    "MacAddressRule",
    "PassportRule",
    "IdCardRule",
    "SsnRule",
    "PhoneInternationalRule",
    "EmailRule",
    "UrlRule",
    "IpRule",
    "BankAccountRule",
    "JwtRule",
    "InvoiceNumberRule",
    "OrderNumberRule",
    "TransactionRefRule",
    "DateWordRule",
    "DateNumberRule",
    "MoneyRule",
    "PostalCodeRule",
    "HealthIdRule",
    "CarPlateRule",
    "SimCardRule",
    "SslCertRule",
    "StreetNameRule",
    "PhoneRule",
    "SocialIdRule">>

\* ---------------------------------------------------------------------
\* FastMasker (maskers/fast_masker/core/masker.py)
\* ---------------------------------------------------------------------

\* A rule object whose apply raises: MaskerRuleI.apply itself raises
\* NotImplementedError, and FastMasker accepts any MaskerRuleI in `rules`.
raises(rule) == rule = "RaisingRule"

\* The `rules` argument of FastMasker.__init__: None or a list of rules.
None == [given |-> FALSE, list |-> <<>>]
RuleList(l) == [given |-> TRUE, list |-> l]

\* __init__ taking the default list back to front.
FastMasker_init_reversed(arg) ==
  IF arg.given /\ arg.list # <<>> THEN arg.list ELSE Reverse(ALL_MASKER_RULES)

\* self.rules = rules or self.ALL_MASKER_RULES
FastMasker_init(arg) ==
  IF arg.given /\ arg.list # <<>> THEN arg.list ELSE ALL_MASKER_RULES

\* `for rule in self.rules`: the rule of iteration idx + 1.
next_rule_reversed(rs, idx) == rs[Len(rs) - idx]
next_rule(rs, idx) == rs[idx + 1]

RECURSIVE _mask_text_from(_, _, _)
\* The loop of _mask_text from iteration idx + 1 on, as a function of the
\* text (defined when no rule of the list raises).
_mask_text_from(rs, text, idx) ==
  \* text, the previous rule's output, is computed before the iteration starts
  IF Len(text) >= 0 /\ idx >= Len(rs) THEN text
  ELSE _mask_text_from(rs, apply(next_rule(rs, idx), text), idx + 1)

_mask_text(rs, text) == _mask_text_from(rs, text, 0)

\* MaskerPayloadTraveler.mask_text delegates to _mask_text.
mask_text(rs, text) == _mask_text(rs, text)

\* ---------------------------------------------------------------------
\* MaskerPayloadTraveler (maskers/payload_interface.py)
\* ---------------------------------------------------------------------

\* A Python value: its exact type, whether a container was built by the
\* caller ("input") or by the traversal ("new"), and its content: the
\* characters of a string, the number of an int or bool, the keys of a dict,
\* the elements of a list or tuple (for a dict: the values, key by key).
Value(ty, obj, s, n, keys, items) ==
  [ty |-> ty, obj |-> obj, s |-> s, n |-> n, keys |-> keys, items |-> items]

Str(s) == Value("str", "value", s, 0, <<>>, <<>>)
\* An int, a bool or None.
Scalar(ty, n) == Value(ty, "value", <<>>, n, <<>>, <<>>)
List(obj, items) == Value("list", obj, <<>>, 0, <<>>, items)
Dict(obj, keys, items) == Value("dict", obj, <<>>, 0, keys, items)

NoneValue == Scalar("NoneType", 0)

\* isinstance(payload, ty): also true of an instance of a subclass.
isinstance(p, ty) == p.ty = ty \/ (ty = "str" /\ p.ty = "str_subclass")

\* type(payload) is ty
type_is(p, ty) == p.ty = ty

\* _p[_k] = v on a dict under construction: an equal key keeps its position
\* and gets the new value, a new key is appended.
dict_setitem(_p, _k, v) ==
  IF \E j \in 1..Len(_p.keys) : _p.keys[j] = _k
  THEN LET j == CHOOSE j \in 1..Len(_p.keys) : _p.keys[j] = _k
       IN [_p EXCEPT !.items[j] = v]
  ELSE [_p EXCEPT !.keys = Append(@, _k), !.items = Append(@, v)]

RECURSIVE mask_payload(_, _)
RECURSIVE _mask_list_loop(_, _, _, _)
RECURSIVE _mask_dict_loop(_, _, _, _)

\* for _e in list_payload: _p.append(self.mask_payload(payload=_e))
_mask_list_loop(rs, list_payload, i, _p) ==
  IF i > Len(list_payload.items) THEN _p
  ELSE _mask_list_loop(rs, list_payload, i + 1,
         [_p EXCEPT !.items = Append(@, mask_payload(rs, list_payload.items[i]))])

\* _mask_list writing the masked elements back into list_payload.
_mask_list_in_place(rs, list_payload) ==
  [_mask_list_loop(rs, list_payload, 1, List("new", <<>>)) EXCEPT
     !.obj = list_payload.obj]

_mask_list(rs, list_payload) ==
  _mask_list_loop(rs, list_payload, 1, List("new", <<>>))

\* for k, v in dict_payload.items(): _p[mask_payload(k)] = mask_payload(v)
_mask_dict_loop(rs, dict_payload, i, _p) ==
  IF i > Len(dict_payload.keys) THEN _p
  ELSE _mask_dict_loop(rs, dict_payload, i + 1,
         dict_setitem(_p, mask_payload(rs, dict_payload.keys[i]),
                      mask_payload(rs, dict_payload.items[i])))

_mask_dict(rs, dict_payload) ==
  _mask_dict_loop(rs, dict_payload, 1, Dict("new", <<>>, <<>>))

mask_payload(rs, payload) ==
  IF type_is(payload, "str") THEN Str(_mask_text(rs, payload.s))
  ELSE IF type_is(payload, "dict") THEN _mask_dict(rs, payload)
  ELSE IF type_is(payload, "list") THEN _mask_list(rs, payload)
  ELSE payload

\* ---------------------------------------------------------------------
\* Inputs of mask_text
\* ---------------------------------------------------------------------

MaxPasses == 2

\* 16-digit card numbers, every last digit, written contiguously or as
\* 4-4-4-4 groups separated by spaces or hyphens.
CardInputs ==
  LET base == <<"4", "1", "1", "1", "1", "1", "1", "1", "1", "1", "1", "1", "1", "1", "1">>
      separators == << <<>>, <<" ">>, <<"-">> >>
      token(ds, sep) == SubSeq(ds, 1, 4) \o sep \o SubSeq(ds, 5, 8) \o sep
                          \o SubSeq(ds, 9, 12) \o sep \o SubSeq(ds, 13, 16)
  IN {token(Append(base, d), separators[k]) : d \in Digit, k \in DOMAIN separators}

\* Standalone 11-digit tokens: every last digit for each ten-digit base.
PeselInputs ==
  LET bases == << <<"4", "4", "0", "5", "1", "4", "0", "1", "3", "5">>,
                  <<"0", "2", "0", "7", "0", "8", "0", "3", "6", "2">>,
                  <<"9", "0", "0", "1", "0", "1", "0", "0", "0", "3">> >>
  IN {Append(bases[b], d) : b \in DOMAIN bases, d \in Digit}

EmailInputs ==
  { <<"u", "s", "e", "r", "@", "e", "x", "a", "m", "p", "l", "e", ".", "c", "o", "m">>,
    <<"a", "@", "b", ".", "p", "l">>,
    <<"j", "a", "n", ".", "n", "o", "w", "a", "k", "@", "x", ".", "c", "o", "m", ".", "p", "l">>,
    <<"a", "b", "1", "2", "3", "4", "5", "6", "7", "@", "w", "w", "w", ".", "x", ".", "p", "l">>,
    <<"4", "4", "0", "5", "1", "4", "0", "1", "3", "5", "9", "@", "e", "x", "a", "m", "p", "l", "e", ".", "c", "o", "m">> }

MixedInputs ==
  { <<"x", "@", "y", ".", "p", "l", "4", "4", "0", "5", "1", "4", "0", "1", "3", "5", "9">>,
    <<"*", "4", "4", "0", "5", "1", "4", "0", "1", "3", "5", "8", "*">>,
    <<"*", "4", "4", "0", "5", "1", "4", "0", "1", "3", "5", "9", "*">>,
    <<"N", "I", "P", ":", " ", "1", "2", "3", "-", "4", "5", "6", "-", "3", "2", "-", "1", "9">>,
    <<"N", "I", "P", ":", " ", "1", "2", "3", "-", "4", "5", "6", "-", "3", "2", "-", "1", "8">>,
    <<"K", "R", "S", " ", "0", "0", "0", "0", "1", "2", "7", "2", "0", "6">>,
    <<"a", "l", "a", " ", "m", "a", " ", "k", "o", "t", "a">> }

\* An IPv4 address, the host name localhost and an IPv6 address.
IpAddresses ==
  { <<"1", "9", "2", ".", "1", "6", "8", ".", "0", ".", "1">>,
    <<"l", "o", "c", "a", "l", "h", "o", "s", "t">>,
    <<"1", ":", "2", ":", "3", ":", "4", ":", "5", ":", "6", ":", "7", ":", "8">> }

IpPorts == { <<"8", "0", "8", "0">>, <<"0">>, <<"6", "5", "5", "3", "5">> }

\* Each address alone and followed by ":" and each port.
IpInputs == IpAddresses \cup {a \o <<":">> \o p : a \in IpAddresses, p \in IpPorts}

\* Numbers with no currency symbol, code or word beside them.
BareNumbers ==
  { <<"1", "0", "0">>,
    <<"5">>,
    <<"1", "2", "3", "4">>,
    <<"1", "2", "3", "4", "5">>,
    <<"1", " ", "0", "0", "0">>,
    <<"1", "2", ".", "5", "0">>,
    <<"1", "0", "0", " ", "m", "l", "n">> }

\* Numbers with a currency prefix or suffix.
CurrencyAmounts ==
  { <<"$", "1", "0", "0">>,
    <<"1", "0", "0", " ", "P", "L", "N">>,
    <<"P", "L", "N", " ", "1", "0", "0">>,
    <<"1", "0", "0", " ", "z", "U+0142">>,
    <<"1", "0", "0", " ", "e", "u", "r", "o">>,
    <<"*", "1", "0", "0", " ", "U", "S", "D", "*">> }

\* Texts made only of placeholder tokens and separators: every token the
\* default set emits, alone and followed by a separator and a second token.
PlaceholderTexts ==
  LET port == <<"{", "{", "P", "O", "R", "T", "}", "}">>
      tokens == {placeholder(r) : r \in Range(ALL_MASKER_RULES)}
                  \cup {port, placeholder("IpRule") \o <<":">> \o port}
  IN tokens
       \cup {a \o <<" ">> \o placeholder("PeselRule") : a \in tokens}
       \cup {a \o <<",", " ">> \o placeholder("EmailRule") : a \in tokens}

TaggedPesels ==
  { <<"P", "E", "S", "E", "L", ":", " ", "4", "4", "0", "5", "1", "4", "0", "1", "3", "5", "9">>,
    <<"P", "E", "S", "E", "L", " ", "4", "4", "0", "5", "1", "4", "0", "1", "3", "5", "9">>,
    <<"p", "e", "s", "e", "l", ":", "4", "4", "0", "5", "1", "4", "0", "1", "3", "5", "9">>,
    <<"P", "E", "S", "E", "L", ":", "\t", "4", "4", "0", "5", "1", "4", "0", "1", "3", "5", "9">>,
    <<"P", "E", "S", "E", "L", ":", " ", "4", "4", "0", "5", "1", "4", "0", "1", "3", "5", "8">>,
    <<"P", "e", "s", "e", "l", ":", " ", " ", "0", "0", "0", "0", "0", "0", "0", "0", "0", "0", "0">>,
    <<"P", "E", "S", "E", "L", ":", " ", "9", "0", "0", "1", "0", "1", "0", "0", "0", "0", "3">>,
    <<"P", "E", "S", "E", "L", ":", ":", "0", "2", "0", "7", "0", "8", "0", "3", "6", "2", "8">> }

InternationalPhones ==
  { <<"+", "4", "8", " ", "1", "2", "3", " ", "4", "5", "6", " ", "7", "8", "9">>,
    <<"t", "e", "l", " ", "+", "4", "8", " ", "1", "2", "3", " ", "4", "5", "6", " ", "7", "8", "9">>,
    <<"x", "+", "4", "8", " ", "1", "2", "3", " ", "4", "5", "6", " ", "7", "8", "9">>,
    <<"+", "1", " ", "2", "0", "2", " ", "5", "5", "5", " ", "0", "1", "2", "3">>,
    <<"+", "4", "8", "1", "2", "3", "4", "5", "6", "7", "8", "9">> }

TenDigitTokens ==
  { <<"9", "8", "9", "3", "9", "2", "0", "4", "6", "0">>,
    <<"9", "8", "9", "-", "3", "9", "2", "-", "0", "4", "-", "6", "0">>,
    <<"7", "4", "0", "5", "4", "2", "9", "3", "8", "2">>,
    <<"7", "4", "0", "-", "5", "4", "2", "-", "9", "3", "-", "8", "2">>,
    <<"6", "6", "6", "1", "9", "3", "4", "5", "1", "4">>,
    <<"6", "6", "6", "-", "1", "9", "3", "-", "4", "5", "-", "1", "4">>,
    <<"7", "8", "7", "7", "8", "9", "3", "2", "8", "7">>,
    <<"7", "8", "7", "-", "7", "8", "9", "-", "3", "2", "-", "8", "7">>,
    <<"4", "6", "4", "6", "6", "2", "0", "2", "1", "0">>,
    <<"4", "6", "4", "-", "6", "6", "2", "-", "0", "2", "-", "1", "0">> }

Inputs ==
  CardInputs \cup PeselInputs \cup EmailInputs \cup MixedInputs \cup IpInputs
    \cup BareNumbers \cup CurrencyAmounts \cup PlaceholderTexts \cup TaggedPesels
    \cup InternationalPhones \cup TenDigitTokens

\* The rule lists a masker is constructed with.
RuleArgs ==
  { None,
    RuleList(<<>>),
    RuleList(<<"PeselRule">>),
    RuleList(<<"NipRule">>),
    RuleList(<<"IpRule">>),
    RuleList(<<"MoneyRule">>),
    RuleList(<<"EmailRule", "EmailRule">>),
    RuleList(<<"RaisingRule", "EmailRule">>),
    RuleList(<<"EmailRule", "RaisingRule", "UrlRule">>) }

\* ---------------------------------------------------------------------
\* Inputs of mask_payload
\* ---------------------------------------------------------------------

MaxDepth == 2

Email1 == <<"a", "@", "b", ".", "p", "l">>
Email2 == <<"c", "@", "d", ".", "p", "l">>

\* Payloads without a dict or list around them.
Leaves ==
  { Str(Email1), Str(<<"o", "k">>),
    Value("str_subclass", "value", Email1, 0, <<>>, <<>>),
    Scalar("int", 7), Scalar("bool", 1), NoneValue,
    Value("object", "input", <<>>, 0, <<>>, <<>>),
    Value("tuple", "value", <<>>, 0, <<>>, <<Str(Email1)>>) }

\* What a caller puts beside a payload in a list.
Siblings == { <<>>, <<Str(Email1)>> }

\* The key a caller files a payload under.
Keys == { Str(Email1), Scalar("int", 1) }

\* The entries that follow it in the dict.
MoreEntries ==
  { [keys |-> <<>>, items |-> <<>>],
    [keys |-> <<Str(Email2)>>, items |-> <<Scalar("int", 7)>>] }

PayloadRuleArgs ==
  { RuleList(<<"EmailRule">>), RuleList(<<"EmailRule", "UrlRule", "PhoneRule">>) }

\* ---------------------------------------------------------------------
\* State
\* ---------------------------------------------------------------------

VARIABLES
  rules_arg,  \* the `rules` argument the masker was constructed with
  rules,      \* self.rules
  call,       \* per caller: the mask_text call in progress
  pl,         \* the mask_payload call: its argument and what it returned
  guard,      \* a GuardrailPipeline: its plugins and the apply call in progress
  registry,   \* the session registries and the last register/get call
  rag         \* a LangchainRAGPlugin: _has_index, its logger, the last apply

vars == <<rules_arg, rules, call, pl, guard, registry, rag>>

\* The masker's variables and the plugin layer's.
masker_vars == <<rules_arg, rules, call, pl>>
plugin_vars == <<guard, registry, rag>>

\* No pipeline, registry or RAG plugin takes part.
PluginsOff == guard = <<>> /\ registry = <<>> /\ rag = <<>>

Idle ==
  [pc |-> "idle", input |-> <<>>, text |-> <<>>, idx |-> 0, hist |-> <<>>,
   pass |-> 0]

NoPayload ==
  [pc |-> "off", arg |-> NoneValue, before |-> NoneValue,
   depth |-> 0, ret |-> NoneValue]

Init ==
  /\ rules_arg \in RuleArgs
  /\ rules = FastMasker_init(rules_arg)
  /\ call = [c \in {"main"} |-> Idle]
  /\ pl = NoPayload
  /\ PluginsOff

\* mask_text(x) is entered: `text` is bound to the argument.
Call(c, x) ==
  /\ call[c].pc = "idle"
  /\ call' = [call EXCEPT ![c] =
       [pc |-> "running", input |-> x, text |-> x, idx |-> 0, hist |-> <<>>,
        pass |-> 1]]
  /\ UNCHANGED <<rules_arg, rules, pl, plugin_vars>>

\* The loop iteration of a masker that keeps `text` in the instance: the
\* output of the rule is seen by every call that is running.
Step_shared_text(c) ==
  /\ call[c].pc = "running"
  /\ call[c].idx < Len(rules)
  /\ LET rule == next_rule(rules, call[c].idx)
         out == apply(rule, call[c].text)
     IN call' = [d \in DOMAIN call |->
          IF d = c
          THEN [call[c] EXCEPT !.text = out, !.idx = @ + 1,
                  !.hist = Append(@, [rule |-> rule, inp |-> call[c].text])]
          ELSE IF call[d].pc = "running" THEN [call[d] EXCEPT !.text = out]
          ELSE call[d]]
  /\ UNCHANGED <<rules_arg, rules, pl, plugin_vars>>

\* One iteration of `for rule in self.rules: text = rule.apply(text)`.
\* An exception raised by apply is not caught and leaves mask_text.
Step(c) ==
  /\ call[c].pc = "running"
  /\ call[c].idx < Len(rules)
  /\ LET rule == next_rule(rules, call[c].idx)
     IN call' = [call EXCEPT ![c] =
          IF raises(rule)
          THEN [@ EXCEPT !.pc = "raised"]
          ELSE [@ EXCEPT !.text = apply(rule, @),
                         !.idx = @ + 1,
                         !.hist = Append(@, [rule |-> rule, inp |-> call[c].text])]]
  /\ UNCHANGED <<rules_arg, rules, pl, plugin_vars>>

\* `return text` after the last rule.
Return(c) ==
  /\ call[c].pc = "running"
  /\ call[c].idx = Len(rules)
  /\ call' = [call EXCEPT ![c].pc = "returned"]
  /\ UNCHANGED <<rules_arg, rules, pl, plugin_vars>>

\* The caller passes the returned text to mask_text again.
Remask(c) ==
  /\ call[c].pc = "returned"
  /\ call[c].pass < MaxPasses
  /\ call' = [call EXCEPT ![c] =
       [pc |-> "running", input |-> call[c].text, text |-> call[c].text,
        idx |-> 0, hist |-> <<>>, pass |-> call[c].pass + 1]]
  /\ UNCHANGED <<rules_arg, rules, pl, plugin_vars>>

Next ==
  \/ \E c \in DOMAIN call, x \in Inputs : Call(c, x)
  \/ \E c \in DOMAIN call : Step(c)
  \/ \E c \in DOMAIN call : Return(c)
  \/ \E c \in DOMAIN call : Remask(c)

Spec == Init /\ [][Next]_vars

\* ---------------------------------------------------------------------
\* mask_payload
\* ---------------------------------------------------------------------

InitPayload ==
  /\ rules_arg \in PayloadRuleArgs
  /\ rules = FastMasker_init(rules_arg)
  /\ call = [c \in {"main"} |-> Idle]
  /\ \E leaf \in Leaves :
       pl = [pc |-> "building", arg |-> leaf, before |-> leaf, depth |-> 0,
             ret |-> NoneValue]
  /\ PluginsOff

\* The caller puts the payload into a list.
WrapList(front, back) ==
  /\ pl.pc = "building"
  /\ pl.depth < MaxDepth
  /\ LET l == List("input", front \o <<pl.arg>> \o back)
     IN pl' = [pl EXCEPT !.arg = l, !.before = l, !.depth = @ + 1]
  /\ UNCHANGED <<rules_arg, rules, call, plugin_vars>>

\* The caller puts the payload into a dict, as the value of the first key.
WrapDict(k, more) ==
  /\ pl.pc = "building"
  /\ pl.depth < MaxDepth
  /\ LET d == Dict("input", <<k>> \o more.keys, <<pl.arg>> \o more.items)
     IN pl' = [pl EXCEPT !.arg = d, !.before = d, !.depth = @ + 1]
  /\ UNCHANGED <<rules_arg, rules, call, plugin_vars>>

\* masker.mask_payload(payload) runs and returns. The caller's object keeps
\* its content unless the returned container is that very object, in which
\* case the caller sees what was written into it.
MaskPayload ==
  /\ pl.pc = "building"
  /\ LET ret == mask_payload(rules, pl.arg)
     IN pl' = [pl EXCEPT !.pc = "returned",
                         !.ret = ret,
                         !.arg = IF ret.obj = "input" THEN ret ELSE @]
  /\ UNCHANGED <<rules_arg, rules, call, plugin_vars>>

NextPayload ==
  \/ \E front \in Siblings, back \in Siblings : WrapList(front, back)
  \/ \E k \in Keys, more \in MoreEntries : WrapDict(k, more)
  \/ MaskPayload

SpecPayload == InitPayload /\ [][NextPayload]_vars

\* ---------------------------------------------------------------------
\* Two callers sharing one FastMasker
\* ---------------------------------------------------------------------

InitShared ==
  /\ rules_arg \in { RuleList(<<"EmailRule", "UrlRule", "IpRule">>),
                      RuleList(<<"PhoneRule", "EmailRule">>) }
  /\ rules = FastMasker_init(rules_arg)
  /\ call = [c \in {"t1", "t2"} |-> Idle]
  /\ pl = NoPayload
  /\ PluginsOff

\* A third caller runs mask_payload(payload) on the shared masker.
MaskPayloadShared(payload) ==
  /\ pl' = [pc |-> "returned", arg |-> payload, before |-> payload, depth |-> 0,
            ret |-> mask_payload(rules, payload)]
  /\ UNCHANGED <<rules_arg, rules, call, plugin_vars>>

\* The callers' rule steps interleave in any order.
NextShared ==
  \/ \E c \in DOMAIN call :
       \E x \in { <<"a", "@", "b", ".", "p", "l">>,
                  <<"s", "e", "e", " ", "w", "w", "w", ".", "x", ".", "p", "l">>,
                  <<"t", "e", "l", " ", "1", "2", "3", "4", "5", "6", "7", "8", "9", " ", "a", "@", "b", ".", "p", "l">> } : Call(c, x)
  \/ \E c \in DOMAIN call : Step(c)
  \/ \E c \in DOMAIN call : Return(c)
  \/ \E c \in DOMAIN call : Remask(c)
  \/ \E payload \in {Str(Email1), List("input", <<Str(Email2)>>)} :
       MaskPayloadShared(payload)

SpecShared == InitShared /\ [][NextShared]_vars

\* ---------------------------------------------------------------------
\* Calls of the validator library
\* ---------------------------------------------------------------------

ValidatorNames ==
  { "is_valid_pesel",
    "is_valid_nip",
    "is_valid_krs",
    "is_valid_regon",
    "is_valid_credit_card",
    "is_valid_nrb",
    "is_valid_vin",
    "is_valid_car_plate",
    "is_valid_ssn",
    "is_valid_mac",
    "is_possible_jwt",
    "is_valid_sim_iccid",
    "is_valid_ssl_serial",
    "is_possible_transaction_ref" }

\* The value the named validator returns for s when it returns.
validator(name, s) ==
  CASE name = "is_valid_pesel" -> is_valid_pesel(s)
    [] name = "is_valid_nip" -> is_valid_nip(s)
    [] name = "is_valid_krs" -> is_valid_krs(s)
    [] name = "is_valid_regon" -> is_valid_regon(s)
    [] name = "is_valid_credit_card" -> is_valid_credit_card(s)
    [] name = "is_valid_nrb" -> is_valid_nrb(s)
    [] name = "is_valid_vin" -> is_valid_vin(s)
    [] name = "is_valid_car_plate" -> is_valid_car_plate(s)
    [] name = "is_valid_ssn" -> is_valid_ssn(s)
    [] name = "is_valid_mac" -> is_valid_mac(s)
    [] name = "is_possible_jwt" -> is_possible_jwt(s)
    [] name = "is_valid_sim_iccid" -> is_valid_sim_iccid(s)
    [] name = "is_valid_ssl_serial" -> is_valid_ssl_serial(s)
    [] name = "is_possible_transaction_ref" -> is_possible_transaction_ref(s)

\* How the call name(s) ends: with the returned boolean or with the exception
\* an int() inside the validator raises.
outcome(name, s) ==
  IF \/ name = "is_valid_pesel" /\ is_valid_pesel_raises(s)
     \/ name = "is_valid_credit_card" /\ is_valid_credit_card_raises(s)
  THEN "ValueError"
  ELSE IF validator(name, s) THEN "True" ELSE "False"

PeselArgs ==
  { <<"4", "4", "0", "5", "1", "4", "0", "1", "3", "5", "9">>,
    <<"4", "4", "0", "5", "1", "4", "0", "1", "3", "5", "8">>,
    <<"0", "0", "0", "0", "0", "0", "0", "0", "0", "0", "0">>,
    <<"4", "4", "0", "5", "1", "4", "0", "1", "3", "5">>,
    <<"U+00B2", "U+00B2", "U+00B2", "U+00B2", "U+00B2", "U+00B2", "U+00B2", "U+00B2", "U+00B2", "U+00B2", "U+00B2">>,
    <<"4", "4", "0", "5", "1", "4", "0", "1", "3", "5", "U+00B2">>,
    <<"U+00B2", "4", "0", "5", "1", "4", "0", "1", "3", "5", "9">>,
    <<"U+00B2", "U+00B2", "U+00B2", "U+00B2", "U+00B2", "U+00B2", "U+00B2", "U+00B2", "U+00B2", "U+00B2">> }

CardArgs ==
  { <<"4", "1", "1", "1", "1", "1", "1", "1", "1", "1", "1", "1", "1", "1", "1", "1">>,
    <<"4", "1", "1", "1", " ", "1", "1", "1", "1", " ", "1", "1", "1", "1", " ", "1", "1", "1", "1">>,
    <<"4", "1", "1", "1", "-", "1", "1", "1", "1", "-", "1", "1", "1", "1", "-", "1", "1", "1", "1">>,
    <<"4", "1", "1", "1", "1", "1", "1", "1", "1", "1", "1", "1", "1", "1", "1", "2">>,
    <<"1", "4", "1", "1", "1", "1", "1", "1", "1", "1", "1", "1", "1", "1", "1", "1">>,
    <<"4", "2", "2", "2", "2", "2", "2", "2", "2", "2", "2", "2", "2">>,
    <<"4", "2", "2", "2", "2", "2", "2", "2", "2", "2", "2", "2">>,
    <<"4", "4", "4", "4", "4", "4", "4", "4", "4", "4", "4", "4", "4", "4", "4", "4", "4", "4", "2">>,
    <<"4", "4", "4", "4", "4", "4", "4", "4", "4", "4", "4", "4", "4", "4", "4", "4", "4", "4", "4", "4">>,
    <<"0", "0", "0", "0", "0", "0", "0", "0", "0", "0", "0", "0", "0">>,
    <<"-", " ", "-">>,
    <<"4", "1", "1", "1", "x", "1", "1", "1", "1", "1", "1", "1", "1", "1", "1", "1">>,
    <<"U+00B2", "U+00B2", "U+00B2", "U+00B2", "U+00B2", "U+00B2", "U+00B2", "U+00B2", "U+00B2", "U+00B2", "U+00B2", "U+00B2", "U+00B2">>,
    <<"U+00B2", "U+00B2", "U+00B2", "U+00B2", "U+00B2", "U+00B2", "U+00B2", "U+00B2", "U+00B2", "U+00B2", "U+00B2", "U+00B2">>,
    <<"4", "1", "1", "1", " ", "1", "1", "1", "1", " ", "1", "1", "1", "1", " ", "1", "1", "1", "U+00B2">>,
    <<"U+00B2", "U+00B2", "U+00B2", "U+00B2", "U+00B2", "U+00B2", "U+00B2", "U+00B2", "U+00B2", "U+00B2", "U+00B2", "U+00B2", "U+00B2", "U+00B2", "U+00B2", "U+00B2", "U+00B2", "U+00B2", "U+00B2", "U+00B2">> }

VinArgs ==
  { <<"1", "M", "8", "G", "D", "M", "9", "A", "X", "K", "P", "0", "4", "2", "7", "8", "8">>,
    <<"1", "1", "1", "1", "1", "1", "1", "1", "1", "1", "1", "1", "1", "1", "1", "1", "1">>,
    <<"1", "h", "g", "c", "m", "8", "2", "6", "3", "3", "a", "0", "0", "4", "3", "5", "2">>,
    <<"1", "1", "1", "1", "1", "1", "1", "1", "6", "1", "1", "1", "1", "1", "1", "1", "J">>,
    <<"1", "1", "1", "1", "1", "1", "1", "1", "1", "1", "1", "1", "1", "1", "1", "1", "J">>,
    <<"1", "1", "1", "1", "1", "1", "1", "1", "X", "1", "1", "1", "1", "1", "1", "1", "L">>,
    <<"1", "1", "1", "1", "1", "1", "1", "1", "5", "1", "1", "1", "1", "1", "1", "1", "L">>,
    <<"1", "M", "8", "G", "D", "M", "9", "A", "X", "K", "P", "0", "4", "2", "7", "8">>,
    <<"1", "M", "8", "G", "D", "M", "9", "A", "X", "K", "P", "0", "4", "2", "7", "8", "I">>,
    <<"1", "1", "1", "1", "1", "1", "1", "1", "1", "1", "1", "1", "1", "1", "1", "1", "U+00B2">> }

OtherArgs ==
  { <<>>,
    <<"1", "2", "3", "4", "5", "6", "3", "2", "1", "8">>,
    <<"1", "2", "3", "-", "4", "5", "6", "-", "3", "2", "-", "1", "8">>,
    <<"0", "0", "0", "0", "0", "0", "0", "0", "0", "0">>,
    <<"1", "2", "3", "4", "5", "6", "7", "8", "5">>,
    <<"1", "2", "3", "4", "5", "6", "7", "8", "5", "1", "2", "3", "4", "7">>,
    <<"0", "0", "0", "0", "0", "0", "0", "0", "6", "0">>,
    <<"6", "1", "1", "0", "9", "0", "1", "0", "1", "4", "0", "0", "0", "0", "0", "7", "1", "2", "1", "9", "8", "1", "2", "8", "7", "4">>,
    <<"6", "1", " ", "1", "0", "9", "0", " ", "1", "0", "1", "4", " ", "0", "0", "0", "0", " ", "0", "7", "1", "2", " ", "1", "9", "8", "1", " ", "2", "8", "7", "4">>,
    <<"W", "A", " ", "1", "2", "3", "4", "5">>,
    <<"1", "2", "3", "-", "4", "5", "-", "6", "7", "8", "9">>,
    <<"0", "0", ":", "1", "A", ":", "2", "B", ":", "3", "C", ":", "4", "D", ":", "5", "E">>,
    <<"0", "0", "1", "A", "2", "B", "3", "C", "4", "D", "5", "E", "6", "F", "7", "0", "8", "0", "9", "0">>,
    <<"8", "9", "4", "8", "0", "1", "1", "2", "3", "4", "5", "6", "7", "8", "9", "0", "1", "2", "3">>,
    <<"8", "9", "4", "8", "0", "1", "1", "2", "3", "4", "5", "6", "7", "8", "9", "0", "1", "2", "3", "4">>,
    <<"T", "X", "-", "2", "0", "2", "4", "-", "0", "0", "0", "1">>,
    <<"a", "b", "c", "d", "e", "f", "g", "h">>,
    <<"a", ".", "b", ".", "c">>,
    <<"e", "y", "J", "h", "b", "G", "c", "i", "O", "i", "J", "I", "U", "z", "I", "1", "N", "i", "J", "9", "x", ".", "e", "y", "J", "z", "d", "W", "I", "i", "O", "i", "I", "x", "M", "j", "M", "0", "N", "T", "Y", "3", "O", "D", "k", "w", "I", "n", "0", ".", "a", "b", "c">>,
    <<"U+00B2", "U+00B2", "U+00B2", "U+00B2", "U+00B2", "U+00B2", "U+00B2", "U+00B2", "U+00B2", "U+00B2">>,
    <<"U+00B2", "U+00B2", "U+00B2", "U+00B2", "U+00B2", "U+00B2", "U+00B2", "U+00B2", "U+00B2">>,
    <<"U+00B2", "U+00B2", "U+00B2", "U+00B2", "U+00B2", "U+00B2", "U+00B2", "U+00B2", "U+00B2", "U+00B2", "U+00B2", "U+00B2", "U+00B2", "U+00B2", "U+00B2", "U+00B2", "U+00B2", "U+00B2", "U+00B2", "U+00B2", "U+00B2", "U+00B2", "U+00B2", "U+00B2", "U+00B2", "U+00B2">>,
    <<"U+00B2", "U+00B2", "U+00B2", "U+00B2", "U+00B2", "U+00B2", "U+00B2", "U+00B2", "U+00B2", "U+00B2", "U+00B2", "U+00B2", "U+00B2", "U+00B2", "U+00B2", "U+00B2", "U+00B2", "U+00B2", "U+00B2">> }

RegonArgs ==
  { <<"3", "9", "8", "2", "5", "9", "7", "9", "0">>,
    <<"0", "4", "7", "9", "6", "6", "6", "9", "0">>,
    <<"7", "2", "5", "1", "0", "2", "7", "3", "6", "4", "6", "4", "6", "4">>,
    <<"9", "2", "5", "8", "9", "9", "1", "3", "1", "9", "4", "4", "1", "0">>,
    <<"1", "0", "9", "9", "0", "6", "9", "5", "8", "8", "4", "8", "3", "4">>,
    <<"3", "9", "8", "2", "5", "9", "7", "9", "3">>,
    <<"7", "2", "5", "1", "0", "2", "7", "3", "6", "4", "6", "4", "6", "7">>,
    <<"3", "9", " ", "8", "2", "5", " ", "9", "7", "9", "0">>,
    <<"3", "9", "8", "2", "5", "9", "7", "9", "0", "0">>,
    <<"3", "9", "8", "2", "5", "9", "7", "9">>,
    <<"7", "2", "5", "1", "0", "2", "7", "3", "6", "4", "6", "4", "6", "4", "0">>,
    <<"3", "9", "8", "2", "5", "9", "7", "9", "x">> }

ValidatorArgs == PeselArgs \cup CardArgs \cup VinArgs \cup OtherArgs \cup RegonArgs

InitValidators ==
  /\ rules_arg = None
  /\ rules = FastMasker_init(rules_arg)
  /\ call = [name |-> "", arg |-> <<>>, outcome |-> ""]
  /\ pl = NoPayload
  /\ PluginsOff

\* One call of a validator; call keeps the last call and how it ended.
Validate(name, s) ==
  /\ call' = [name |-> name, arg |-> s, outcome |-> outcome(name, s)]
  /\ UNCHANGED <<rules_arg, rules, pl, plugin_vars>>

NextValidators ==
  \E name \in ValidatorNames, s \in ValidatorArgs : Validate(name, s)

SpecValidators == InitValidators /\ [][NextValidators]_vars

\* ---------------------------------------------------------------------
\* Guardrail plugins and GuardrailPipeline (plugin_interface.py,
\* guardrails/nask/nask_guard_plugin.py, guardrails/speakleash/
\* sojka_guard_plugin.py, guardrails/pipeline.py)
\* ---------------------------------------------------------------------

EmptyDict == Dict("value", <<>>, <<>>)

\* d.get(key, default) for a dict d
dict_get(d, key, default) ==
  IF \E j \in 1..Len(d.keys) : d.keys[j] = key
  THEN d.items[CHOOSE j \in 1..Len(d.keys) : d.keys[j] = key]
  ELSE default

\* bool(v)
truthy(v) ==
  CASE v.ty \in {"bool", "int"} -> v.n # 0
    [] v.ty = "NoneType" -> FALSE
    [] v.ty \in {"str", "str_subclass"} -> Len(v.s) > 0
    [] v.ty = "dict" -> Len(v.keys) > 0
    [] OTHER -> Len(v.items) > 0

\* One HTTP exchange as the service and the network decide it: the exception
\* requests.post, raise_for_status or response.json raises ("" for none) and
\* the decoded body.
Exchange(exc, json) == [raises |-> exc, json |-> json]

\* HttpPluginInterface._request: the decoded body, or the exception re-raised
\* after it was logged.
_request(http) == [raised |-> http.raises # "", value |-> http.json]

\* NASKGuardPlugin.apply and SojkaGuardPlugin.apply (the bodies are the same):
\* what the call returns, or that it raised.  response.get and results.get
\* raise AttributeError on a value that is no dict; the except clause turns
\* every exception into (False, {}).
HttpGuard_apply(http) ==
  LET response == _request(http)
      failed == [raised |-> FALSE, is_safe |-> FALSE, message |-> EmptyDict]
  IN IF response.raised THEN failed
     ELSE IF response.value.ty # "dict" THEN failed
     ELSE LET results == dict_get(response.value, "results", EmptyDict) IN
          IF results.ty # "dict" THEN failed
          ELSE [raised |-> FALSE,
                is_safe |-> truthy(dict_get(results, "safe", Scalar("bool", 0))),
                message |-> response.value]

\* GuardrailPipeline.apply taken as a loop that goes on after a plugin that
\* reported not safe and returns the last plugin's verdict.
pipeline_next_no_stop(g, r) ==
  LET seen == [g EXCEPT !.invoked = Append(@, r), !.idx = @ + 1] IN
  IF seen.idx = Len(g.plugins) /\ ~r.is_safe
  THEN [seen EXCEPT !.pc = "returned",
                    !.ret = [is_safe |-> FALSE, message |-> r.message]]
  ELSE seen

\* GuardrailPipeline.apply, one iteration of the loop after plugin.apply
\* returned r: return (False, message) at once, or go on to the next plugin.
pipeline_next(g, r) ==
  LET seen == [g EXCEPT !.invoked = Append(@, r)] IN
  IF ~r.is_safe
  THEN [seen EXCEPT !.pc = "returned",
                    !.ret = [is_safe |-> FALSE, message |-> r.message]]
  ELSE [seen EXCEPT !.idx = @ + 1]

MaxPlugins == 2

GuardrailNames == {"nask_guard", "sojka_guard"}

\* plugin_names of a pipeline: every list of at most MaxPlugins names.
PluginNameLists ==
  UNION {[1..n -> GuardrailNames] : n \in 0..MaxPlugins}

GuardPayloads ==
  { Dict("input", <<"text">>, <<Str(Email1)>>),
    Dict("input", <<"text">>, <<Str(Email2)>>) }

Results(keys, items) == Dict("value", <<"results">>, <<Dict("value", keys, items)>>)

\* What a guardrail service can answer and how a request can fail.
Exchanges ==
  { Exchange("ConnectionError", NoneValue),
    Exchange("HTTPError", NoneValue),
    Exchange("JSONDecodeError", NoneValue),
    Exchange("", Results(<<"safe", "detailed">>, <<Scalar("bool", 1), List("value", <<>>)>>)),
    Exchange("", Results(<<"safe">>, <<Scalar("bool", 0)>>)),
    Exchange("", Results(<<"safe">>, <<Str(<<"n", "o">>)>>)),
    Exchange("", Results(<<"detailed">>, <<List("value", <<>>)>>)),
    Exchange("", Dict("value", <<"results">>, <<NoneValue>>)),
    Exchange("", Dict("value", <<"detail">>, <<Str(<<"N", "o", "t", " ", "F", "o", "u", "n", "d">>)>>)),
    Exchange("", EmptyDict),
    Exchange("", List("value", <<>>)),
    Exchange("", NoneValue) }

\* GuardrailPipeline.__init__: the plugin instances, resolved by name.
InitGuardrails ==
  /\ rules_arg = None
  /\ rules = FastMasker_init(rules_arg)
  /\ call = <<>>
  /\ pl = NoPayload
  /\ registry = <<>>
  /\ rag = <<>>
  /\ \E names \in PluginNameLists :
       guard = [plugins |-> names, pc |-> "idle", payload |-> NoneValue,
                idx |-> 0, invoked |-> <<>>,
                ret |-> [is_safe |-> FALSE, message |-> NoneValue]]

\* apply(payload) is entered.
GuardApply(payload) ==
  /\ guard.pc \in {"idle", "returned"}
  /\ guard' = [guard EXCEPT !.pc = "loop", !.payload = payload, !.idx = 0,
                            !.invoked = <<>>,
                            !.ret = [is_safe |-> FALSE, message |-> NoneValue]]
  /\ UNCHANGED <<masker_vars, registry, rag>>

\* One iteration: the next plugin's apply(payload) runs its HTTP exchange.
GuardPluginApply(http) ==
  /\ guard.pc = "loop"
  /\ guard.idx < Len(guard.plugins)
  /\ guard' = pipeline_next(guard,
                [plugin |-> guard.plugins[guard.idx + 1], position |-> guard.idx + 1,
                 payload |-> guard.payload, http |-> http]
                @@ HttpGuard_apply(http))
  /\ UNCHANGED <<masker_vars, registry, rag>>

\* The loop has run out of plugins: return (True, {}).
GuardReturn ==
  /\ guard.pc = "loop"
  /\ guard.idx = Len(guard.plugins)
  /\ guard' = [guard EXCEPT !.pc = "returned",
                            !.ret = [is_safe |-> TRUE, message |-> EmptyDict]]
  /\ UNCHANGED <<masker_vars, registry, rag>>

NextGuardrails ==
  \/ \E payload \in GuardPayloads : GuardApply(payload)
  \/ \E http \in Exchanges : GuardPluginApply(http)
  \/ GuardReturn

SpecGuardrails == InitGuardrails /\ [][NextGuardrails]_vars

\* ---------------------------------------------------------------------
\* Plugin registries (maskers/, guardrails/ and utils/ registry.py and
\* plugin_registrator.py)
\* ---------------------------------------------------------------------

Registries == {"MaskerRegistry", "GuardrailRegistry", "UtilsRegistry"}

\* The logger argument of register: a logging.Logger or None.
Loggers == {"logger", "None"}

\* The keys of MAIN_MASKERS_REGISTRY, MAIN_GUARDRAILS_REGISTRY and
\* MAIN_UTILS_REGISTRY.
MAIN_REGISTRY_keys(reg) ==
  CASE reg = "MaskerRegistry" -> {"fast_masker"}
    [] reg = "GuardrailRegistry" -> GuardrailNames
    [] reg = "UtilsRegistry" -> {"langchain_rag"}

\* The value a main registry holds under a key: the plugin class, or None
\* (MAIN_UTILS_REGISTRY maps LangchainRAGPlugin.name to None).
MAIN_REGISTRY_factory(reg, name) ==
  IF reg = "UtilsRegistry" THEN "None" ELSE "class"

\* MAIN_REGISTRY[name](logger=logger): the exception of the call ("" for
\* none).  Calling None raises TypeError; a guardrail plugin's constructor
\* raises RuntimeError when its host constant is empty (host_set is FALSE);
\* FastMaskerPlugin's constructor has no failing branch.
construct(reg, name, host_set) ==
  CASE MAIN_REGISTRY_factory(reg, name) = "None" -> "TypeError"
    [] reg = "GuardrailRegistry" /\ ~host_set -> "RuntimeError"
    [] OTHER -> ""

\* dict[name] = value
dict_store(session, name, value) ==
  [k \in DOMAIN session \cup {name} |-> IF k = name THEN value ELSE session[k]]

\* What register leaves behind: the exception it raised ("" for none) and the
\* session registry.
Registered(exc, session) == [raises |-> exc, session |-> session]

\* MaskerRegistry.register: logger.info is called on the logger as given.
MaskerRegistry_register(session, name, logger, host_set, instance) ==
  IF name \notin MAIN_REGISTRY_keys("MaskerRegistry")
  THEN Registered("KeyError", session)
  ELSE IF name \in DOMAIN session THEN Registered("", session)
  ELSE IF construct("MaskerRegistry", name, host_set) # ""
  THEN Registered(construct("MaskerRegistry", name, host_set), session)
  ELSE IF logger = "None"
  THEN Registered("AttributeError", dict_store(session, name, instance))
  ELSE Registered("", dict_store(session, name, instance))

\* GuardrailRegistry.register: logger.info under `if logger`.
GuardrailRegistry_register(session, name, logger, host_set, instance) ==
  IF name \notin MAIN_REGISTRY_keys("GuardrailRegistry")
  THEN Registered("KeyError", session)
  ELSE IF name \in DOMAIN session THEN Registered("", session)
  ELSE IF construct("GuardrailRegistry", name, host_set) # ""
  THEN Registered(construct("GuardrailRegistry", name, host_set), session)
  ELSE Registered("", dict_store(session, name, instance))

\* UtilsRegistry.register: logger.info under `if logger`.
UtilsRegistry_register(session, name, logger, host_set, instance) ==
  IF name \notin MAIN_REGISTRY_keys("UtilsRegistry")
  THEN Registered("KeyError", session)
  ELSE IF name \in DOMAIN session THEN Registered("", session)
  ELSE IF construct("UtilsRegistry", name, host_set) # ""
  THEN Registered(construct("UtilsRegistry", name, host_set), session)
  ELSE Registered("", dict_store(session, name, instance))

register(reg, session, name, logger, host_set, instance) ==
  CASE reg = "MaskerRegistry" ->
         MaskerRegistry_register(session, name, logger, host_set, instance)
    [] reg = "GuardrailRegistry" ->
         GuardrailRegistry_register(session, name, logger, host_set, instance)
    [] reg = "UtilsRegistry" ->
         UtilsRegistry_register(session, name, logger, host_set, instance)

\* get of the three registries: SESSION[name], or KeyError.
get(session, name) ==
  IF name \in DOMAIN session
  THEN [raises |-> "", value |-> session[name]]
  ELSE [raises |-> "KeyError", value |-> 0]

\* The names the callers pass: every key of a main registry and one name
\* that is in none.
RegistryNames ==
  UNION {MAIN_REGISTRY_keys(reg) : reg \in Registries} \cup {"unknown_plugin"}

EmptySession == [k \in {} |-> 0]

NoRegistryCall ==
  [op |-> "none", reg |-> "", name |-> "", logger |-> "", host_set |-> FALSE,
   raises |-> "", value |-> 0, before |-> EmptySession]

\* The session registries are empty when the modules are imported.  `made`
\* keeps, per registry and name, the instance a register call created and
\* returned from; `instances` counts the plugin objects constructed.
InitRegistries ==
  /\ rules_arg = None
  /\ rules = FastMasker_init(rules_arg)
  /\ call = <<>>
  /\ pl = NoPayload
  /\ guard = <<>>
  /\ rag = <<>>
  /\ registry = [session |-> [reg \in Registries |-> EmptySession],
                 made |-> [reg \in Registries |-> EmptySession],
                 instances |-> 0,
                 last |-> NoRegistryCall]

Register(reg, name, logger, host_set) ==
  LET before == registry.session[reg]
      r == register(reg, before, name, logger, host_set, registry.instances + 1)
      stored == name \in DOMAIN r.session /\ name \notin DOMAIN before
  IN /\ registry' =
          [session |-> [registry.session EXCEPT ![reg] = r.session],
           made |-> IF stored /\ r.raises = ""
                    THEN [registry.made EXCEPT ![reg] =
                            dict_store(@, name, r.session[name])]
                    ELSE registry.made,
           instances |-> IF stored THEN registry.instances + 1
                         ELSE registry.instances,
           last |-> [op |-> "register", reg |-> reg, name |-> name,
                     logger |-> logger, host_set |-> host_set,
                     raises |-> r.raises, value |-> 0,
                     before |-> before]]
     /\ UNCHANGED <<masker_vars, guard, rag>>

Get(reg, name) ==
  LET r == get(registry.session[reg], name) IN
  /\ registry' = [registry EXCEPT
                    !.last = [op |-> "get", reg |-> reg, name |-> name,
                              logger |-> "", host_set |-> FALSE,
                              raises |-> r.raises, value |-> r.value,
                              before |-> registry.session[reg]]]
  /\ UNCHANGED <<masker_vars, guard, rag>>

NextRegistries ==
  \/ \E reg \in Registries, name \in RegistryNames, logger \in Loggers,
        host_set \in BOOLEAN : Register(reg, name, logger, host_set)
  \/ \E reg \in Registries, name \in RegistryNames : Get(reg, name)

SpecRegistries == InitRegistries /\ [][NextRegistries]_vars

\* ---------------------------------------------------------------------
\* LangchainRAGPlugin (utils/rag/langchain_plugin.py) over the LangChainRAG
\* engine (utils/rag/engine/langchain.py)
\* ---------------------------------------------------------------------

\* LangChainRAG._prepare_faiss: the store loaded from persist_dir when the
\* directory has files, a new FAISS store over a new IndexFlatIP otherwise.
\* Both have an index object; only the loaded one has documents.
_prepare_faiss(persisted) ==
  IF persisted THEN [index |-> "loaded index", nonempty |-> TRUE]
  ELSE [index |-> "IndexFlatIP", nonempty |-> FALSE]

\* bool(getattr(vectorstore, "index", None)): the attribute is read and, as
\* an object without __bool__ and __len__, counts as true unless it is None.
has_index_at_init(vectorstore) == vectorstore.index # "None"

\* The exception a handler raised ("" for none, with its message), and
\* otherwise the tuple it returned.
HandlerRaised(exc, msg) == [exc |-> exc, msg |-> msg, result |-> ""]
HandlerReturned(result) == [exc |-> "", msg |-> "", result |-> result]

\* The message has an en dash (U+2013) where "-" stands here.
EmptyStoreMessage == "The vector store is empty - call the 'index' action first."

\* int(v) for the top_n values used: the exception it raises, "" for none.
int_exc(v) ==
  CASE v.ty \in {"int", "bool"} -> ""
    [] isinstance(v, "str") -> IF Len(v.s) = 0 \/ int_raises(v.s) THEN "ValueError" ELSE ""
    [] OTHER -> "TypeError"

\* LangchainRAGPlugin._index; engine is what rag.index_texts does ("ok" or
\* "raises").  The third component is _has_index afterwards.
_index(has_index, payload, engine) ==
  LET texts == dict_get(payload, "texts", NoneValue) IN
  IF ~isinstance(texts, "list")
       \/ \E j \in 1..Len(texts.items) : ~isinstance(texts.items[j], "str")
  THEN <<HandlerRaised("ValueError", "'texts' must be a list of strings."), FALSE, has_index>>
  ELSE IF engine = "raises"
  THEN <<HandlerRaised("EngineError", "engine error"), TRUE, has_index>>
  ELSE <<HandlerReturned("Indexed documents"), TRUE, TRUE>>

\* LangchainRAGPlugin._search; engine is what rag.search does: "raises",
\* "no_hits" (an empty list) or "hits" (a list of (Document, score) tuples, as
\* similarity_search_with_score returns them, on which doc.page_content raises
\* AttributeError).  The second component tells whether the engine was called.
_search(has_index, payload, engine) ==
  LET query == dict_get(payload, "query", NoneValue)
      top_n == dict_get(payload, "top_n", Scalar("int", 10))
  IN IF ~has_index
     THEN <<HandlerRaised("RuntimeError", EmptyStoreMessage), FALSE, has_index>>
     ELSE IF ~isinstance(query, "str")
     THEN <<HandlerRaised("ValueError", "'query' must be a string."), FALSE, has_index>>
     ELSE IF int_exc(top_n) # ""
     THEN <<HandlerRaised(int_exc(top_n), "int() failed"), FALSE, has_index>>
     ELSE IF engine = "raises"
     THEN <<HandlerRaised("EngineError", "engine error"), TRUE, has_index>>
     ELSE IF engine = "hits"
     THEN <<HandlerRaised("AttributeError", "'tuple' object has no attribute 'page_content'"),
            TRUE, has_index>>
     ELSE <<HandlerReturned("[]"), TRUE, has_index>>

\* The body of apply's try block.
dispatch(has_index, payload, engine) ==
  IF payload.ty # "dict"
  THEN <<HandlerRaised("AttributeError", "object has no attribute 'get'"), FALSE, has_index>>
  ELSE LET action == dict_get(payload, "action", Str(<<"s", "e", "a", "r", "c", "h">>)) IN
       IF action = Str(<<"i", "n", "d", "e", "x">>) THEN _index(has_index, payload, engine)
       ELSE IF action = Str(<<"s", "e", "a", "r", "c", "h">>)
       THEN _search(has_index, payload, engine)
       ELSE <<HandlerRaised("ValueError", "Unsupported action"), FALSE, has_index>>

\* LangchainRAGPlugin.apply: what the call returned, or the exception that
\* left it.  The except clause calls self._logger.exception on the logger as
\* given to the constructor.
LangchainRAGPlugin_apply(logger, has_index, payload, engine) ==
  LET d == dispatch(has_index, payload, engine)[1] IN
  IF d.exc = ""
  THEN [raised |-> "", success |-> TRUE, key |-> "result", value |-> d.result]
  ELSE IF logger = "None"
  THEN [raised |-> "AttributeError", success |-> FALSE, key |-> "", value |-> ""]
  ELSE [raised |-> "", success |-> FALSE, key |-> "error", value |-> d.msg]

RagAction(name) ==
  CASE name = "index" -> Str(<<"i", "n", "d", "e", "x">>)
    [] name = "search" -> Str(<<"s", "e", "a", "r", "c", "h">>)
    [] OTHER -> Str(<<"d", "r", "o", "p">>)

RagPayloads ==
  { Dict("input", <<"action", "texts">>,
         <<RagAction("index"), List("value", <<Str(<<"a">>), Str(<<"b">>)>>)>>),
    Dict("input", <<"action", "texts">>, <<RagAction("index"), List("value", <<>>)>>),
    Dict("input", <<"action", "texts">>, <<RagAction("index"), Str(<<"a">>)>>),
    Dict("input", <<"action", "texts">>,
         <<RagAction("index"), List("value", <<Str(<<"a">>), Scalar("int", 1)>>)>>),
    Dict("input", <<"action">>, <<RagAction("index")>>),
    Dict("input", <<"action", "query">>, <<RagAction("search"), Str(<<"q">>)>>),
    Dict("input", <<"query">>, <<Str(<<"q">>)>>),
    Dict("input", <<"action", "query">>, <<RagAction("search"), Scalar("int", 5)>>),
    Dict("input", <<"action">>, <<RagAction("search")>>),
    Dict("input", <<"action", "query", "top_n">>,
         <<RagAction("search"), Str(<<"q">>), Str(<<"x">>)>>),
    Dict("input", <<"action", "query", "top_n">>,
         <<RagAction("search"), Str(<<"q">>), Str(<<"3">>)>>),
    Dict("input", <<"action", "query", "top_n">>,
         <<RagAction("search"), Str(<<"q">>), NoneValue>>),
    Dict("input", <<"action">>, <<RagAction("drop")>>),
    List("input", <<>>) }

EngineOutcomes == {"ok", "raises", "hits", "no_hits"}

\* What the engine can do in a call: index_texts returns or raises; search
\* raises or returns a list, which has entries only when the store has
\* documents.
engine_can(payload, nonempty, engine) ==
  IF payload.ty = "dict" /\ dict_get(payload, "action", RagAction("search")) = RagAction("index")
  THEN engine \in {"ok", "raises"}
  ELSE engine \in {"raises", "no_hits"} \cup (IF nonempty THEN {"hits"} ELSE {})

NoRagCall ==
  [payload |-> NoneValue, engine |-> "", queried |-> FALSE, had_index |-> FALSE,
   was_enabled |-> FALSE,
   ret |-> [raised |-> "", success |-> FALSE, key |-> "", value |-> ""]]

\* LangchainRAGPlugin.__init__ with USE_LANGCHAIN_RAG set, with or without a
\* logger, over a persist_dir with or without a saved index.  `indexed` tells
\* whether an index action has returned (True, ...) so far.
InitRag ==
  /\ rules_arg = None
  /\ rules = FastMasker_init(rules_arg)
  /\ call = <<>>
  /\ pl = NoPayload
  /\ guard = <<>>
  /\ registry = <<>>
  /\ \E logger \in Loggers, persisted \in BOOLEAN :
       rag = [logger |-> logger, persisted |-> persisted,
              _has_index |-> has_index_at_init(_prepare_faiss(persisted)),
              nonempty |-> _prepare_faiss(persisted).nonempty,
              indexed |-> FALSE,
              last |-> NoRagCall]

RagApply(payload, engine) ==
  LET d == dispatch(rag._has_index, payload, engine)
      ret == LangchainRAGPlugin_apply(rag.logger, rag._has_index, payload, engine)
      index_done == d[1].exc = "" /\ d[3] /\ payload.ty = "dict"
                      /\ dict_get(payload, "action", RagAction("search")) = RagAction("index")
  IN /\ engine_can(payload, rag.nonempty, engine)
     /\ rag' = [rag EXCEPT
                  !._has_index = d[3],
                  !.nonempty = @ \/ (index_done
                                     /\ Len(dict_get(payload, "texts", NoneValue).items) > 0),
                  !.indexed = @ \/ index_done,
                  !.last = [payload |-> payload, engine |-> engine, queried |-> d[2],
                            had_index |-> rag._has_index,
                            was_enabled |-> rag.persisted \/ rag.indexed,
                            ret |-> ret]]
     /\ UNCHANGED <<masker_vars, guard, registry>>

NextRag ==
  \E payload \in RagPayloads, engine \in EngineOutcomes : RagApply(payload, engine)

SpecRag == InitRag /\ [][NextRag]_vars

\* ---------------------------------------------------------------------
\* Properties of mask_text
\* ---------------------------------------------------------------------

Contains(s, part) ==
  \E j \in 1..(Len(s) - Len(part) + 1) : SubSeq(s, j, j + Len(part) - 1) = part

Returned(c) == call[c].pc = "returned"

\* A first call of a masker built with the default rule set has returned.
DefaultReturned(c) ==
  /\ Returned(c)
  /\ call[c].pass = 1
  /\ rules = ALL_MASKER_RULES

\* The text the rule of iteration i produced (i <= number of iterations done).
OutputOf(c, i) ==
  IF i < Len(call[c].hist) THEN call[c].hist[i + 1].inp ELSE call[c].text

\* C1: when mask_text returns, every rule of self.rules has been applied
\* exactly once, in list order, the first to the argument and each later one
\* to the output of the rule before it, and the result is the output of the
\* last rule.
C1_LeftToRightReduction ==
  \A c \in DOMAIN call :
    Returned(c) =>
      LET h == call[c].hist
          n == Len(rules)
      IN /\ Len(h) = n
         /\ \A i \in 1..n :
              /\ h[i].rule = rules[i]
              /\ h[i].inp = IF i = 1 THEN call[c].input
                            ELSE apply(rules[i - 1], h[i - 1].inp)
         /\ call[c].text = apply(rules[n], h[n].inp)

\* A returned call of the default pipeline in which some intermediate text
\* differs both from the argument and from the result (two rules fired).
C1_Witness ==
  \E c \in DOMAIN call :
    /\ DefaultReturned(c)
    /\ \E i \in 1..Len(call[c].hist) :
         /\ call[c].hist[i].inp # call[c].input
         /\ call[c].hist[i].inp # call[c].text

\* C2: a rule whose apply raises is skipped and the call still returns: no
\* call ends with an exception, and a returned call's result is the
\* reduction over the rules that do not raise.
C2_FaultIsolation ==
  \A c \in DOMAIN call :
    /\ call[c].pc # "raised"
    /\ Returned(c) /\ call[c].pass = 1 =>
         call[c].text =
           _mask_text(SelectSeq(rules, LAMBDA r : ~raises(r)), call[c].input)

\* C3: masking the result of mask_text again with the default rule set
\* returns it unchanged.
C3_Idempotent ==
  \A c \in DOMAIN call :
    Returned(c) /\ call[c].pass >= 2 /\ rules = ALL_MASKER_RULES =>
      call[c].text = call[c].input

\* Rules whose replacement callback consults a validator.
ValidatorRules ==
  {"CreditCardRule", "VinRule", "PeselTaggedRule", "PeselRule", "NipRule",
   "KrsRule", "RegonRule", "NrbRule", "MacAddressRule", "SsnRule", "JwtRule",
   "TransactionRefRule", "CarPlateRule", "SimCardRule", "SslCertRule"}

RECURSIVE finditer(_, _, _)
\* The spans <<start, end>> pattern.sub visits in t from position i on.
finditer(rule, t, i) ==
  LET e == MatchEnd(pattern(rule), t, i) IN
  IF e > i THEN <<<<i, e>>>> \o finditer(rule, t, e)
  ELSE (IF e = i THEN <<<<i, e>>>> ELSE <<>>)
       \o (IF i >= Len(t) THEN <<>> ELSE finditer(rule, t, i + 1))

\* C4: for a rule with a validator, every match is either replaced with the
\* placeholder or left exactly as matched, and when no match is accepted the
\* rule returns its input unchanged.
C4_RejectedMatchUnchanged ==
  \A c \in DOMAIN call :
    \A i \in 1..Len(call[c].hist) :
      LET rule == call[c].hist[i].rule
          t == call[c].hist[i].inp
          spans == finditer(rule, t, 0)
          repl(k) == replacement(rule, t, spans[k][1], spans[k][2])
      IN rule \in ValidatorRules =>
           /\ \A k \in 1..Len(spans) :
                \/ repl(k) = Slice(t, spans[k][1], spans[k][2])
                \/ Contains(repl(k), placeholder(rule))
           /\ (\A k \in 1..Len(spans) : ~Contains(repl(k), placeholder(rule)))
                => OutputOf(c, i) = t

\* C5: through the default pipeline a 16-digit card token (contiguous or
\* 4-4-4-4 with spaces or dashes) becomes {{CREDIT_CARD}} when its digits
\* pass Luhn and is returned untouched when they do not.
C5_CreditCardGating ==
  \A c \in DOMAIN call :
    DefaultReturned(c) /\ call[c].input \in CardInputs =>
      call[c].text =
        IF luhn_checksum(Remove(call[c].input, {" ", "-"})) = 0
        THEN placeholder("CreditCardRule")
        ELSE call[c].input

\* C6: through the default pipeline a standalone 11-digit token becomes
\* {{PESEL}} exactly when (10 - (sum of w_i * d_i) mod 10) mod 10 equals the
\* 11th digit, weights 1,3,7,9,1,3,7,9,1,3, and is returned unchanged
\* otherwise.
C6_PeselGating ==
  \A c \in DOMAIN call :
    DefaultReturned(c) /\ Len(call[c].input) = 11 /\ isdigit(call[c].input) =>
      LET d(j) == DigitValue(call[c].input[j])
          total == 1 * d(1) + 3 * d(2) + 7 * d(3) + 9 * d(4) + 1 * d(5)
                     + 3 * d(6) + 7 * d(7) + 9 * d(8) + 1 * d(9) + 3 * d(10)
      IN call[c].text =
           IF (10 - (total % 10)) % 10 = d(11)
           THEN <<"{", "{", "P", "E", "S", "E", "L", "}", "}">>
           ELSE call[c].input

\* The sample 44051401359 has been masked to {{PESEL}} by the default pipeline.
C6_Witness ==
  \E c \in DOMAIN call :
    /\ DefaultReturned(c)
    /\ call[c].input = <<"4", "4", "0", "5", "1", "4", "0", "1", "3", "5", "9">>
    /\ call[c].text = placeholder("PeselRule")

\* C10: through the default pipeline a text that is one e-mail address
\* becomes {{EMAIL}} and the result contains no {{URL}}.
C10_EmailNotUrl ==
  \A c \in DOMAIN call :
    DefaultReturned(c) /\ call[c].input \in EmailInputs =>
      /\ call[c].text = placeholder("EmailRule")
      /\ ~Contains(call[c].text, placeholder("UrlRule"))

Certainty(rule) ==
  CASE rule \in {"CreditCardRule", "VinRule", "PeselTaggedRule", "PeselRule",
                 "NipRule", "KrsRule", "RegonRule"} -> 1
    [] rule \in {"NrbRule", "MacAddressRule", "PassportRule", "IdCardRule",
                 "SsnRule"} -> 2
    [] rule = "PhoneInternationalRule" -> 3
    [] rule \in {"EmailRule", "UrlRule", "IpRule", "BankAccountRule"} -> 4
    [] rule \in {"JwtRule", "InvoiceNumberRule", "OrderNumberRule",
                 "TransactionRefRule"} -> 5
    [] rule \in {"DateWordRule", "DateNumberRule", "MoneyRule", "PostalCodeRule",
                 "HealthIdRule", "CarPlateRule", "SimCardRule", "SslCertRule"} -> 6
    [] OTHER -> 7

C14_CallsIndependent ==
  /\ rules = FastMasker_init(rules_arg)
  /\ \A c \in DOMAIN call :
       call[c].pc \in {"running", "returned"} =>
         call[c].text = _mask_text(SubSeq(rules, 1, call[c].idx), call[c].input)
  /\ \A c, d \in DOMAIN call :
       Returned(c) /\ Returned(d) /\ call[c].input = call[d].input =>
         call[c].text = call[d].text

\* Two calls with different arguments are in the middle of their loops at the
\* same time, each having applied a rule that changed its text, after a
\* mask_payload call has returned.
C14_Witness ==
  /\ pl.pc = "returned"
  /\ \E c, d \in DOMAIN call :
       /\ c # d
       /\ call[c].pc = "running" /\ call[d].pc = "running"
       /\ call[c].input # call[d].input
       /\ call[c].idx > 0 /\ call[c].idx < Len(rules)
       /\ call[d].idx > 0 /\ call[d].idx < Len(rules)
       /\ call[c].text # call[c].input
       /\ call[d].text # call[d].input

\* C15: a text made only of placeholder tokens and separators is returned
\* unchanged by every rule: whatever rules a call has applied to such a text,
\* its text is still its argument.
C15_PlaceholdersNotRematched ==
  \A c \in DOMAIN call :
    call[c].pass = 1 /\ call[c].input \in PlaceholderTexts =>
      /\ call[c].text = call[c].input
      /\ \A i \in 1..Len(call[c].hist) : call[c].hist[i].inp = call[c].input

\* The 32 rules of the default set have all been applied to {{IP}}:{{PORT}}.
C15_Witness ==
  \E c \in DOMAIN call :
    /\ DefaultReturned(c)
    /\ call[c].input = <<"{", "{", "I", "P", "}", "}", ":", "{", "{", "P", "O", "R", "T", "}", "}">>
    /\ {call[c].hist[i].rule : i \in 1..Len(call[c].hist)} = Range(ALL_MASKER_RULES)
    /\ call[c].text = call[c].input

\* C16: a masker built with a rule list uses exactly that list, the empty
\* list included: its rules are the list given, and a returned call holds the
\* reduction of its argument over the list given (the argument itself when
\* the list is empty).
C16_ExplicitListUsed ==
  rules_arg.given =>
    /\ rules = rules_arg.list
    /\ \A c \in DOMAIN call :
         Returned(c) => call[c].text = _mask_text(rules_arg.list, call[c].input)

\* C17: a rule list in which two rules have the same placeholder is refused
\* at construction: no masker exists whose rules hold the same placeholder
\* at two positions.
C17_MalformedConfigFailsFast ==
  \A i, j \in 1..Len(rules) :
    /\ i < j
    /\ {rules[i], rules[j]} \subseteq Range(ALL_MASKER_RULES)
    => placeholder(rules[i]) # placeholder(rules[j])

\* ---------------------------------------------------------------------
\* Properties of mask_payload
\* ---------------------------------------------------------------------

RECURSIVE SubPayloadsOf(_, _)
\* p and every value nested in the values of ps.
SubPayloadsOf(ps, i) ==
  IF i > Len(ps) THEN {}
  ELSE {ps[i]} \cup SubPayloadsOf(ps[i].keys, 1) \cup SubPayloadsOf(ps[i].items, 1)
         \cup SubPayloadsOf(ps, i + 1)

SubPayloads(p) == SubPayloadsOf(<<p>>, 1)

\* What mask_payload returns for the sub-payload p of the argument.
MaskedOf(p) == IF p = pl.before THEN pl.ret ELSE mask_payload(rules, p)

\* C7: mask_payload of a dict returns a new dict with one entry per entry of
\* the argument, in the same order, each key the masked key and each value
\* the masked value, and leaves the argument as it was.
C7_DictEntriesPreserved ==
  pl.pc = "returned" /\ pl.before.ty = "dict" =>
    /\ pl.ret.ty = "dict"
    /\ pl.ret.obj = "new"
    /\ Len(pl.ret.keys) = Len(pl.before.keys)
    /\ \A i \in 1..Len(pl.before.keys) :
         /\ i <= Len(pl.ret.keys)
         /\ pl.ret.keys[i] = mask_payload(rules, pl.before.keys[i])
         /\ pl.ret.items[i] = mask_payload(rules, pl.before.items[i])
    /\ pl.arg = pl.before

\* C8: for every list in the argument, at any depth, mask_payload returns a
\* new list of the same length whose i-th element is mask_payload of the
\* i-th element, and the argument is left as it was.
C8_ListPreserved ==
  pl.pc = "returned" =>
    /\ \A l \in SubPayloads(pl.before) :
         l.ty = "list" =>
           LET r == MaskedOf(l)
           IN /\ r.ty = "list"
              /\ r.obj = "new"
              /\ Len(r.items) = Len(l.items)
              /\ \A i \in 1..Len(l.items) :
                   r.items[i] = mask_payload(rules, l.items[i])
    /\ pl.arg = pl.before

\* A list holding a list has been masked, and the inner list's elements
\* changed.
C8_Witness ==
  /\ pl.pc = "returned"
  /\ pl.before.ty = "list"
  /\ \E i \in 1..Len(pl.before.items) :
       /\ pl.before.items[i].ty = "list"
       /\ pl.ret.items[i].items # pl.before.items[i].items

\* C9: a value whose type is not exactly str, dict or list is returned as it
\* is, and a str is returned as mask_text of it.
C9_LeafPassThrough ==
  pl.pc = "returned" =>
    \A p \in SubPayloads(pl.before) :
      /\ p.ty \notin {"str", "dict", "list"} => MaskedOf(p) = p
      /\ p.ty = "str" => MaskedOf(p) = Str(mask_text(rules, p.s))

\* mask_payload has returned a tuple holding an e-mail address as it was.
C9_Witness ==
  /\ pl.pc = "returned"
  /\ pl.before = Value("tuple", "value", <<>>, 0, <<>>, <<Str(Email1)>>)
  /\ pl.ret = pl.before

\* ---------------------------------------------------------------------
\* Properties of the validator library
\* ---------------------------------------------------------------------

\* C18: every call of a validator, whatever the string (empty, any length,
\* digit characters outside ASCII), ends by returning true or false; no call
\* ends in an exception.
C18_ValidatorsNeverRaise ==
  call.name \in ValidatorNames => call.outcome \in {"True", "False"}

\* The value the claim's transliteration table gives a VIN character:
\* A..H are 1..8, J..N are 1..5, P is 7, R is 9, S..Z are 2..9.
ClaimedVinValue(c) ==
  IF c \in Digit THEN DigitValue(c)
  ELSE <<1, 2, 3, 4, 5, 6, 7, 8, 1, 2, 3, 4, 5, 7, 9, 2, 3, 4, 5, 6, 7, 8, 9>>
         [CHOOSE j \in 1..Len(VIN_LETTERS) : VIN_LETTERS[j] = c]

RECURSIVE ClaimedVinTotal(_, _)
ClaimedVinTotal(vin, j) ==
  IF j > 17 THEN 0
  ELSE ClaimedVinValue(vin[j]) * VIN_WEIGHTS[j] + ClaimedVinTotal(vin, j + 1)

\* C19: is_valid_vin(s) returns true exactly when s, upper-cased, is 17
\* characters of [A-HJ-NPR-Z0-9] and its 9th character is the check character
\* of the weighted sum taken with the claim's transliteration table
\* (remainder mod 11, 'X' for 10).
C19_VinCheckCharacter ==
  call.name = "is_valid_vin" =>
    LET vin == upper(call.arg)
        wellformed == Len(vin) = 17 /\ \A j \in 1..Len(vin) : vin[j] \in Digit \cup Range(VIN_LETTERS)
        remainder == ClaimedVinTotal(vin, 1) % 11
    IN (call.outcome = "True") <=>
         (wellformed /\ vin[9] = (IF remainder = 10 THEN "X" ELSE DigitSeq[remainder + 1]))

RECURSIVE ClaimedLuhnSum(_, _)
\* The Luhn sum as the claim states it: k counts the digits from the right,
\* every second one (k even) is doubled and 9 is taken off a doubled value
\* above 9.
ClaimedLuhnSum(digits, k) ==
  IF k > Len(digits) THEN 0
  ELSE LET d == DigitValue(digits[Len(digits) - k + 1])
           doubled == IF 2 * d > 9 THEN 2 * d - 9 ELSE 2 * d
       IN (IF k % 2 = 0 THEN doubled ELSE d) + ClaimedLuhnSum(digits, k + 1)

\* C20: is_valid_credit_card(s) returns true exactly when s without its
\* spaces and dashes is 13 to 19 digits whose Luhn sum (every second digit
\* from the right doubled, the rightmost not, 9 subtracted above 9) is
\* divisible by 10.
C20_CreditCardLuhn ==
  call.name = "is_valid_credit_card" =>
    LET cleaned == Remove(call.arg, {" ", "-"})
        digits == Len(cleaned) \in 13..19 /\ \A j \in 1..Len(cleaned) : cleaned[j] \in Digit
    IN (call.outcome = "True") <=> (digits /\ ClaimedLuhnSum(cleaned, 1) % 10 = 0)

\* is_valid_credit_card("4111 1111 1111 1111") has returned true.
C20_Witness ==
  /\ call.name = "is_valid_credit_card"
  /\ call.arg = <<"4", "1", "1", "1", " ", "1", "1", "1", "1", " ", "1", "1", "1", "1", " ", "1", "1", "1", "1">>
  /\ call.outcome = "True"

RECURSIVE ClaimedWeightedSum(_, _, _)
\* weights[1]*digit 1 + ... + weights[n]*digit n, as the claims state checksums
ClaimedWeightedSum(weights, digits, n) ==
  IF n = 0 THEN 0
  ELSE ClaimedWeightedSum(weights, digits, n - 1) + weights[n] * DigitValue(digits[n])

\* The claim's REGON check digit: the weighted sum mod 11 with 10 mapped to 0.
ClaimedRegonDigit(weights, digits) ==
  LET r == ClaimedWeightedSum(weights, digits, Len(weights)) % 11
  IN DigitSeq[(IF r = 10 THEN 0 ELSE r) + 1]

C22_TaggedPeselKeepsLabel ==
  \A c \in DOMAIN call :
    LET x == call[c].input
        n == Len(x) - 11
        label == SubSeq(x, 1, 5)
        digits == SubSeq(x, n + 1, Len(x))
        total == ClaimedWeightedSum(<<1, 3, 7, 9, 1, 3, 7, 9, 1, 3>>, digits, 10)
    IN DefaultReturned(c) /\ n >= 6
         /\ upper(label) = <<"P", "E", "S", "E", "L">>
         /\ (\A j \in 6..n : x[j] \in Space \cup {":"})
         /\ (\A j \in 1..11 : digits[j] \in Digit)
       => call[c].text =
            IF (10 - (total % 10)) % 10 = DigitValue(digits[11])
            THEN SubSeq(x, 1, n) \o <<"{", "{", "P", "E", "S", "E", "L", "_", "T", "A", "G", "G", "E", "D", "}", "}">>
            ELSE x

\* "PESEL: 44051401359" has come back as "PESEL: {{PESEL_TAGGED}}".
C22_Witness ==
  \E c \in DOMAIN call :
    /\ DefaultReturned(c)
    /\ call[c].input = <<"P", "E", "S", "E", "L", ":", " ", "4", "4", "0", "5", "1", "4", "0", "1", "3", "5", "9">>
    /\ call[c].text = <<"P", "E", "S", "E", "L", ":", " ">> \o placeholder("PeselTaggedRule")

\* The shape the claim gives an international number: "+", a country code of
\* 1 to 3 digits, then 2 to 5 groups of 1 to 4 digits, each after at most one
\* space or dash.
ClaimedInternationalNumber ==
  Cat(<< Cls({"+"}), Rep(Cls(Digit), 1, 3),
         Rep(Cat(<< Rep(Cls({" ", "-"}), 0, 1), Rep(Cls(Digit), 1, 4) >>), 2, 5) >>)

\* C23: a number of that shape that makes up the rest of the text and stands
\* at the start of the text or after whitespace (after words and spaces only)
\* comes back from the default pipeline as the text before it followed by
\* {{PHONE_INTERNATIONAL}}.
C23_InternationalPhoneWhole ==
  \A c \in DOMAIN call :
    \A p \in 1..Len(call[c].input) :
      LET x == call[c].input IN
      /\ DefaultReturned(c)
      /\ p = 1 \/ x[p - 1] \in Space
      /\ \A j \in 1..(p - 1) : x[j] \in Letter \cup Space
      /\ fullmatch(ClaimedInternationalNumber, SubSeq(x, p, Len(x)))
      => call[c].text = SubSeq(x, 1, p - 1) \o
                          <<"{", "{", "P", "H", "O", "N", "E", "_", "I", "N", "T", "E", "R", "N", "A", "T", "I", "O", "N", "A", "L", "}", "}">>

\* C24: a text that is one 10-digit token, plain or hyphenated 3-3-2-2, comes
\* back from the default pipeline as {{NIP}} when the sum of weights
\* [6,5,7,2,3,4,5,6,7] times its first 9 digits, mod 11, equals digit 10;
\* otherwise as {{KRS}} when the sum of weights [2,3,4,5,6,7,8,9,2] times its
\* first 9 digits, mod 11, is not 10 and equals digit 10; otherwise unchanged.
C24_NipBeforeKrs ==
  \A c \in DOMAIN call :
    LET x == call[c].input
        d == Remove(x, {"-"})
        shaped == \/ Len(x) = 10
                  \/ Len(x) = 13 /\ x[4] = "-" /\ x[8] = "-" /\ x[11] = "-"
        nip == ClaimedWeightedSum(<<6, 5, 7, 2, 3, 4, 5, 6, 7>>, d, 9) % 11
        control == ClaimedWeightedSum(<<2, 3, 4, 5, 6, 7, 8, 9, 2>>, d, 9) % 11
    IN DefaultReturned(c) /\ shaped /\ Len(d) = 10 /\ (\A j \in 1..10 : d[j] \in Digit)
       => call[c].text =
            IF nip = DigitValue(d[10]) THEN <<"{", "{", "N", "I", "P", "}", "}">>
            ELSE IF control # 10 /\ control = DigitValue(d[10]) THEN <<"{", "{", "K", "R", "S", "}", "}">>
            ELSE x

\* 9893920460, which passes both checksums, has come back as {{NIP}}.
C24_Witness ==
  \E c \in DOMAIN call :
    /\ DefaultReturned(c)
    /\ call[c].input = <<"9", "8", "9", "3", "9", "2", "0", "4", "6", "0">>
    /\ call[c].text = placeholder("NipRule")

\* ---------------------------------------------------------------------
\* Properties of the guardrail pipeline and the HTTP guard plugins
\* ---------------------------------------------------------------------

ClaimedMalformed(json) ==
  \/ json.ty # "dict"
  \/ dict_get(json, "results", NoneValue).ty # "dict"
  \/ \A j \in 1..Len(dict_get(json, "results", NoneValue).keys) :
       dict_get(json, "results", NoneValue).keys[j] # "safe"

\* C26: NASKGuardPlugin.apply and SojkaGuardPlugin.apply never raise; on a
\* request failure, an HTTP error or a malformed response they return
\* (False, {}); the first component is True only when results.safe is present
\* in the response and truthy.
C26_GuardsFailClosed ==
  \A k \in 1..Len(guard.invoked) :
    LET e == guard.invoked[k] IN
    /\ ~e.raised
    /\ (e.http.raises # "" \/ ClaimedMalformed(e.http.json)) =>
         (~e.is_safe /\ e.message = EmptyDict)
    /\ e.is_safe =>
         /\ e.http.raises = ""
         /\ ~ClaimedMalformed(e.http.json)
         /\ truthy(dict_get(dict_get(e.http.json, "results", EmptyDict), "safe", NoneValue))

\* ---------------------------------------------------------------------
\* Properties of the plugin registries
\* ---------------------------------------------------------------------

\* C27: each registry holds at most one instance per name: every session key
\* is a key of the main registry; register of a name already in the session
\* registry changes nothing and returns; get(name) returns only the instance
\* that the first register(name) to complete created, and raises KeyError
\* for a name no register call completed for.
C27_OneInstancePerName ==
  LET c == registry.last IN
  /\ \A reg \in Registries :
       DOMAIN registry.session[reg] \subseteq MAIN_REGISTRY_keys(reg)
  /\ (c.op = "register" /\ c.name \in DOMAIN c.before) =>
       (c.raises = "" /\ registry.session[c.reg] = c.before)
  /\ c.op = "get" =>
       IF c.name \in DOMAIN registry.made[c.reg]
       THEN c.raises = "" /\ c.value = registry.made[c.reg][c.name]
       ELSE c.raises = "KeyError"

\* C28: a register call that raises leaves the session registry as it was;
\* register of a name of the main registry whose plugin constructor works
\* returns without error and the name is in the session registry afterwards.
C28_FailedRegisterLeavesNoTrace ==
  LET c == registry.last IN
  c.op = "register" =>
    /\ c.raises # "" => registry.session[c.reg] = c.before
    /\ (c.name \in MAIN_REGISTRY_keys(c.reg) /\ c.host_set) =>
         (c.raises = "" /\ c.name \in DOMAIN registry.session[c.reg])

\* ---------------------------------------------------------------------
\* Properties of LangchainRAGPlugin
\* ---------------------------------------------------------------------

\* C29: LangchainRAGPlugin.apply never raises, with or without a logger:
\* every failure comes back as (False, {"error": message}) and every success
\* as (True, {"result": ...}).
C29_RagApplyNeverRaises ==
  rag.last.engine # "" =>
    /\ rag.last.ret.raised = ""
    /\ rag.last.ret.success => rag.last.ret.key = "result"
    /\ ~rag.last.ret.success => rag.last.ret.key = "error"

LastActionIs(name) ==
  /\ rag.last.engine # ""
  /\ rag.last.payload.ty = "dict"
  /\ dict_get(rag.last.payload, "action", RagAction("search")) = RagAction(name)

\* C30: a search succeeds only if the store had a persisted index when the
\* plugin was constructed or an index action succeeded before; until then a
\* search fails with the empty-store error and the engine is not queried.  A
\* failed index action does not enable search, and search once enabled stays
\* enabled.
C30_SearchNeedsIndex ==
  /\ (LastActionIs("search") /\ ~rag.last.was_enabled) =>
       /\ ~rag.last.ret.success
       /\ ~rag.last.queried
       /\ rag.last.ret.key = "error" => rag.last.ret.value = EmptyStoreMessage
  /\ (LastActionIs("index") /\ ~rag.last.ret.success) =>
       rag._has_index = rag.last.had_index
  /\ rag.last.had_index => rag._has_index

====
